---------------------------- MODULE Spec2Model ----------------------------
(***************************************************************************)
(* A model of the HMLLDB commands `adrp` (HMInstructionsHelper.py),       *)
(* `edisassemble` (HMDisassemble.py) and `rc` (HMRegister.py) with the     *)
(* helpers they use (HMLLDBHelpers.py).                                    *)
(*                                                                         *)
(* Text is modelled as a sequence of one-character strings, so that the    *)
(* Python string operations the code relies on (split, rstrip, find,       *)
(* rfind, ljust, int, hex) are computed and not assumed.                   *)
(***************************************************************************)
EXTENDS Integers, Sequences, FiniteSets, TLC

VARIABLES
    \* --- calculate_adrp_result_with_immediate_and_pc_address -------------
    immediate,          \* argument `immediate`
    pc_address,         \* argument `pc_address`
    result_tuple,       \* <<>> before the call, <<result_value, hex text>> after
    \* --- HMLLDBHelpers.int_value_from_string -----------------------------
    integer_str,        \* argument `integer_str`
    int_result,         \* <<>> before the call, the outcome record after
    \* --- get_address_from_assemble_line ----------------------------------
    assemble_line,      \* argument `assemble_line`
    line_result,        \* <<>> before the call, <<address_int>> after
    \* --- the debugged process -------------------------------------------
    env,                \* what the debugger's services answer during one command
    \* --- comment_for_branch ---------------------------------------------
    branch_instruction, \* argument `branch_instruction`
    branch_pc,          \* "idle", "start", "walk" or "done"
    instruction_list_size,  \* instruction_list.GetSize()
    branch_i,           \* loop variable i
    branch_register_dic,    \* register_dic
    branch_item,        \* the instruction the loop looked at last
    my_comment,         \* the text returned
    \* --- enhanced_disassemble -------------------------------------------
    assemble_lines,     \* original_output.splitlines()
    dis_pc,             \* "idle", "scan", "print" or "done"
    line_index,         \* position of the running for loop in assemble_lines
    first_address_int,
    continuous_instructions_count,
    original_comment_index,
    max_assemble_line_length,
    address_comment_dict,
    read_log,           \* the target.ReadInstructions calls made for runs
    result_messages,    \* the lines given to result.AppendMessage
    \* --- the instructions in memory ---------------------------------------
    memory_text,        \* the instructions mapped from ListingBase on
    \* --- record_adrp_logic -----------------------------------------------
    adrp_instruction,   \* argument `adrp_instruction`, with its load address
    walk_pc,            \* "idle", "start", "walk" or "done"
    walk_i,             \* loop variable i
    walk_register_dic,  \* register_dic
    walk_comment_dict,  \* argument `address_comment_dict`
    walk_log,           \* what each round of the loop looked at and did
    walk_branch_comment,    \* <<>> or <<comment_for_branch of a bl to ListingBase>>
    \* --- HMReference.analyze_ldr, the value of an ldrsw -------------------
    loaded_raw,         \* the value the memory read returned, in limbs
    ldrsw_result,       \* <<>> before, <<value recorded, comment>> after
    \* --- HMInstructionsHelper.adrp ---------------------------------------
    command,            \* argument `command`
    adrp_printed,       \* <<>> before the call, <<the line given to HM.DPrint>> after
    \* --- HMRegister.register_change --------------------------------------
    frame,              \* the selected frame: its registers, by name
    g_last_registers_dict,
    last_disassemble,
    rc_calls,           \* how many times rc has been entered
    rc_printed,         \* what the latest rc printed
    \* --- HMDisassemble.set_my_comment_in_dict, one instruction at a time --
    pass_instruction_list,  \* the instructions read for a run
    pass_i,                 \* index of the next instruction of the list
    pass_comment_dict,      \* address_comment_dict
    pass_writes             \* per instruction handled: the keys its call stored

adrpVars == <<immediate, pc_address, result_tuple>>
intVars  == <<integer_str, int_result>>
lineVars == <<assemble_line, line_result>>
branchVars == <<branch_instruction, branch_pc, instruction_list_size, branch_i,
                branch_register_dic, branch_item, my_comment>>
disVars  == <<assemble_lines, dis_pc, line_index, first_address_int,
              continuous_instructions_count, original_comment_index,
              max_assemble_line_length, address_comment_dict, read_log,
              result_messages>>
walkVars == <<memory_text, adrp_instruction, walk_pc, walk_i, walk_register_dic,
              walk_comment_dict, walk_log, walk_branch_comment,
              loaded_raw, ldrsw_result>>
cmdVars  == <<command, adrp_printed>>
rcVars   == <<frame, g_last_registers_dict, last_disassemble, rc_calls, rc_printed>>
passVars == <<pass_instruction_list, pass_i, pass_comment_dict, pass_writes>>

-----------------------------------------------------------------------------
(* Bounds of the model                                                     *)

MaxImm      == 3    \* immediates range over -MaxImm .. MaxImm
MaxPage     == 3    \* pc addresses lie in pages 0 .. MaxPage
MaxTokLen   == 4    \* tokens given to int_value_from_string: up to this long
MaxAddrIdx  == 7    \* addresses embedded in lines: AddrStride * (0 .. MaxAddrIdx)
MaxJunkLen  == 2    \* address-less lines: up to this many tokens
MaxLines    == 4    \* lines of a listing given to enhanced_disassemble: at most this many

-----------------------------------------------------------------------------
(* Python text primitives                                                  *)

Digits    == {"0", "1", "2", "3", "4", "5", "6", "7", "8", "9"}
HexLower  == <<"0", "1", "2", "3", "4", "5", "6", "7", "8", "9",
               "a", "b", "c", "d", "e", "f">>
HexUpper  == <<"0", "1", "2", "3", "4", "5", "6", "7", "8", "9",
               "A", "B", "C", "D", "E", "F">>
HexChars  == {HexLower[i] : i \in 1..16} \cup {HexUpper[i] : i \in 1..16}

IsSpace(c) == c \in {" ", "\t"}

\* value of one digit character (decimal or hexadecimal)
DigitVal(c) ==
    IF \E i \in 1..16 : HexLower[i] = c
    THEN (CHOOSE i \in 1..16 : HexLower[i] = c) - 1
    ELSE (CHOOSE i \in 1..16 : HexUpper[i] = c) - 1

\* The element of a set of one element.  TheOne({F(x) : x \in {e}}) is
\* F(x) for x the value of e: what "x = e", then F(x), computes.
TheOne(S) == CHOOSE y \in S : TRUE

\* str.startswith(prefix)
startswith(s, prefix) ==
    /\ Len(s) >= Len(prefix)
    /\ SubSeq(s, 1, Len(prefix)) = prefix

\* str.rstrip(c): remove every trailing occurrence of the character c
RECURSIVE rstrip(_, _)
rstrip(s, c) ==
    IF s # <<>> /\ s[Len(s)] = c THEN rstrip(SubSeq(s, 1, Len(s) - 1), c) ELSE s

\* str.strip(): remove leading and trailing whitespace
RECURSIVE lstrip_ws(_)
lstrip_ws(s) == IF s # <<>> /\ IsSpace(s[1]) THEN lstrip_ws(Tail(s)) ELSE s
RECURSIVE rstrip_ws(_)
rstrip_ws(s) ==
    IF s # <<>> /\ IsSpace(s[Len(s)]) THEN rstrip_ws(SubSeq(s, 1, Len(s) - 1)) ELSE s
strip(s) == rstrip_ws(lstrip_ws(s))

\* str.find(c) and str.rfind(c) for a single character: 0-based index or -1
find(s, c) ==
    IF \E i \in 1..Len(s) : s[i] = c
    THEN (CHOOSE i \in 1..Len(s) : s[i] = c /\ \A j \in 1..(i - 1) : s[j] # c) - 1
    ELSE -1
rfind(s, c) ==
    IF \E i \in 1..Len(s) : s[i] = c
    THEN (CHOOSE i \in 1..Len(s) : s[i] = c /\ \A j \in (i + 1)..Len(s) : s[j] # c) - 1
    ELSE -1

\* `sub in s` for texts
contains(s, sub) ==
    \E i \in 0..(Len(s) - Len(sub)) : SubSeq(s, i + 1, i + Len(sub)) = sub

\* the slice s[a:b] with 0 <= a <= b
slice(s, a, b) == SubSeq(s, a + 1, IF b < Len(s) THEN b ELSE Len(s))

\* a fixed-width field: pad with spaces on the right or cut at the width
ljust_fixed_width(s, width) ==
    [i \in 1..width |-> IF i <= Len(s) THEN s[i] ELSE " "]

\* str.ljust(width): pad with spaces on the right, never truncate
RECURSIVE ljust(_, _)
ljust(s, width) == IF Len(s) >= width THEN s ELSE ljust(Append(s, " "), width)

\* str.split(): split on runs of whitespace, no empty tokens
RECURSIVE split_from(_, _, _)
split_from(s, cur, acc) ==
    IF s = <<>>
    THEN IF cur = <<>> THEN acc ELSE Append(acc, cur)
    ELSE IF IsSpace(s[1])
         THEN split_from(Tail(s), <<>>, IF cur = <<>> THEN acc ELSE Append(acc, cur))
         ELSE split_from(Tail(s), Append(cur, s[1]), acc)
split(s) == split_from(s, <<>>, <<>>)

\* hex(n): "0x" and lowercase digits, a leading "-" for negative n
RECURSIVE hexdigits(_)
hexdigits(n) ==
    IF n < 16 THEN <<HexLower[n + 1]>>
    ELSE Append(hexdigits(n \div 16), HexLower[(n % 16) + 1])
hex(n) ==
    IF n < 0 THEN <<"-", "0", "x">> \o hexdigits(-n) ELSE <<"0", "x">> \o hexdigits(n)

\* str(n) for an integer: decimal digits, a leading "-" for negative n
RECURSIVE decdigits(_)
decdigits(n) ==
    IF n < 10 THEN <<HexLower[n + 1]>>
    ELSE Append(decdigits(n \div 10), HexLower[(n % 10) + 1])
str(n) == IF n < 0 THEN <<"-">> \o decdigits(-n) ELSE decdigits(n)

\* The digit part of an int() argument: digits of the base, single
\* underscores allowed between digits only.
DigitOK(c, base) ==
    IF base = 10 THEN c \in Digits ELSE c \in HexChars
DigitGroupOK(s, base) ==
    /\ s # <<>>
    /\ s[1] # "_" /\ s[Len(s)] # "_"
    /\ \A i \in 1..Len(s) : s[i] = "_" \/ DigitOK(s[i], base)
    /\ \A i \in 1..(Len(s) - 1) : ~(s[i] = "_" /\ s[i + 1] = "_")
RECURSIVE digits_value(_, _, _)
digits_value(s, base, acc) ==
    IF s = <<>> THEN acc
    ELSE IF s[1] = "_" THEN digits_value(Tail(s), base, acc)
    ELSE digits_value(Tail(s), base, acc * base + DigitVal(s[1]))

\* int(s, base) for base 10 or 16: surrounding whitespace is ignored, one
\* sign may lead, base 16 accepts a "0x"/"0X" prefix (and one underscore
\* after it); anything else raises ValueError.
int(s, base) ==
    TheOne({
        LET signed == t # <<>> /\ t[1] \in {"+", "-"}
            u      == IF signed THEN Tail(t) ELSE t
            pref   == base = 16 /\ (startswith(u, <<"0", "x">>) \/ startswith(u, <<"0", "X">>))
            v      == IF pref THEN SubSeq(u, 3, Len(u)) ELSE u
            w      == IF pref /\ v # <<>> /\ v[1] = "_" THEN Tail(v) ELSE v
        IN  IF DigitGroupOK(w, base)
            THEN [raised |-> FALSE,
                  value  |-> IF signed /\ t[1] = "-"
                             THEN 0 - digits_value(w, base, 0)
                             ELSE digits_value(w, base, 0)]
            ELSE [raised |-> TRUE, value |-> 0]
            : t \in {strip(s)}})

-----------------------------------------------------------------------------
(* HMInstructionsHelper.calculate_adrp_result_with_immediate_and_pc_address *)

PageSize == 4096

calculate_adrp_result_drop_low_bits(imm, pc) ==
    LET immediate_value_temp  == imm * PageSize
        pc_address_value_temp == pc
        result_value          == immediate_value_temp + pc_address_value_temp
    IN  <<result_value, hex(result_value)>>

calculate_adrp_result_with_immediate_and_pc_address(imm, pc) ==
    LET immediate_value_temp  == imm * PageSize
        pc_address_value_temp == pc - (pc % PageSize)
        result_value          == immediate_value_temp + pc_address_value_temp
    IN  <<result_value, hex(result_value)>>

-----------------------------------------------------------------------------
(* HMLLDBHelpers.int_value_from_string                                     *)

\* Outcome of a call: `raised` tells whether an exception left the function,
\* `is_valid` and `value` are the returned pair.
int_value_from_string_always_hex(s) ==
    TheOne({
        IF r.raised
        THEN [raised |-> FALSE, is_valid |-> FALSE, value |-> 0]
        ELSE [raised |-> FALSE, is_valid |-> TRUE, value |-> r.value]
            : r \in {int(s, 16)}})

int_value_from_string_uncaught(s) ==
    TheOne({
        IF r.raised
        THEN [raised |-> TRUE, is_valid |-> FALSE, value |-> 0]
        ELSE [raised |-> FALSE, is_valid |-> TRUE, value |-> r.value]
            : r \in {IF startswith(s, <<"0", "x">>) THEN int(s, 16) ELSE int(s, 10)}})

int_value_from_string(s) ==
    TheOne({
        IF r.raised
        THEN [raised |-> FALSE, is_valid |-> FALSE, value |-> 0]
        ELSE [raised |-> FALSE, is_valid |-> TRUE, value |-> r.value]
            : r \in {IF startswith(s, <<"0", "x">>) THEN int(s, 16) ELSE int(s, 10)}})

-----------------------------------------------------------------------------
(* HMDisassemble.get_address_from_assemble_line                            *)

\* lldb.LLDB_INVALID_ADDRESS is 2^64 - 1; the model uses the largest value
\* of its integers, which no modelled address reaches.
LLDB_INVALID_ADDRESS == 2147483647

get_address_ignoring_marker(line) ==
    LET keywords == split(line)
    IN  IF Len(keywords) < 2 THEN LLDB_INVALID_ADDRESS
        ELSE LET address_str0 == rstrip(keywords[1], ":")
                 start == find(address_str0, "[")
                 end   == find(address_str0, "]")
                 address_str == IF 0 <= start /\ start < end
                                THEN slice(address_str0, start + 1, end)
                                ELSE address_str0
             IN  TheOne({IF r.is_valid THEN r.value ELSE LLDB_INVALID_ADDRESS
                            : r \in {int_value_from_string(address_str)}})

get_address_from_assemble_line(line) ==
    LET keywords == split(line)
    IN  IF Len(keywords) < 2 THEN LLDB_INVALID_ADDRESS
        ELSE LET address_str0 == IF keywords[1] = <<"-", ">">>
                                 THEN rstrip(keywords[2], ":")
                                 ELSE rstrip(keywords[1], ":")
                 start == find(address_str0, "[")
                 end   == find(address_str0, "]")
                 address_str == IF 0 <= start /\ start < end
                                THEN slice(address_str0, start + 1, end)
                                ELSE address_str0
             IN  TheOne({IF r.is_valid THEN r.value ELSE LLDB_INVALID_ADDRESS
                            : r \in {int_value_from_string(address_str)}})

-----------------------------------------------------------------------------
(* Decoded instructions, as the disassembly service hands them out         *)

m_adrp  == <<"a", "d", "r", "p">>
m_adr   == <<"a", "d", "r">>
m_add   == <<"a", "d", "d">>
m_ldr   == <<"l", "d", "r">>
m_ldrsw == <<"l", "d", "r", "s", "w">>
m_mov   == <<"m", "o", "v">>
m_str   == <<"s", "t", "r">>
m_nop   == <<"n", "o", "p">>
m_b     == <<"b">>
m_bl    == <<"b", "l">>
m_br    == <<"b", "r">>
m_blr   == <<"b", "l", "r">>
m_ret   == <<"r", "e", "t">>
m_None  == <<"None">>      \* GetMnemonic of an invalid SBInstruction

r_x1 == <<"x", "1">>
r_x8 == <<"x", "8">>
r_x9 == <<"x", "9">>

txt_native       == <<"n", "a", "t", "i", "v", "e">>
txt_objc_msgSend == <<"o", "b", "j", "c", "_", "m", "s", "g", "S", "e", "n", "d">>
txt_lookup_objc  == <<"l", "i", "b", "o", "b", "j", "c", ".", "A", ".", "d", "y", "l", "i", "b", " ">> \o txt_objc_msgSend
txt_lookup_sym   == <<"A", "p", "p", " ", "m", "a", "i", "n">>
txt_viewDidLoad  == <<"\"", "v", "i", "e", "w", "D", "i", "d", "L", "o", "a", "d", "\"", "\n">>

\* An instruction: mnemonic, destination and source register, immediate (or
\* branch target), whether its operand text parses, and its native comment.
Ins(mn, dst, src, imm, parses, cmt) ==
    [mnemonic |-> mn, dst |-> dst, src |-> src, imm |-> imm, parses |-> parses,
     comment |-> cmt]

InvalidInstruction == Ins(m_None, <<>>, <<>>, 0, FALSE, <<>>)

\* SBInstruction.GetOperands: the operand text lldb prints
GetOperands(ins) ==
    IF ~ins.parses THEN <<"?">>
    ELSE IF ins.mnemonic \in {m_b, m_bl} THEN hex(ins.imm)
    ELSE IF ins.mnemonic \in {m_br, m_blr} THEN ins.dst
    ELSE IF ins.mnemonic = m_adrp THEN ins.dst \o <<",", " ">> \o str(ins.imm)
    ELSE IF ins.mnemonic = m_adr THEN ins.dst \o <<",", " ">> \o hex(ins.imm)
    ELSE IF ins.mnemonic = m_add
         THEN ins.dst \o <<",", " ">> \o ins.src \o <<",", " ", "#">> \o hex(ins.imm)
    ELSE IF ins.mnemonic \in {m_ldr, m_ldrsw, m_str}
         THEN ins.dst \o <<",", " ", "[">> \o ins.src \o <<",", " ", "#">> \o hex(ins.imm) \o <<"]">>
    ELSE IF ins.mnemonic = m_mov
         THEN IF ins.src = <<>> THEN ins.dst \o <<",", " ", "#">> \o hex(ins.imm)
              ELSE ins.dst \o <<",", " ">> \o ins.src
    ELSE <<>>

\* dict[key] = value
Put(d, k, v) == [x \in (DOMAIN d) \cup {k} |-> IF x = k THEN v ELSE d[x]]

-----------------------------------------------------------------------------
(* The debugged process: memory, symbols, strings                          *)

\* env.unreadable : the addresses whose pointer read fails
\* env.objc       : whether the symbol lookup of ObjcAddr names objc_msgSend
\* env.xs_ok      : whether "x/s" can read a string
\* env.mapped     : how many instructions are mapped at the branch target
\* env.commented  : the addresses whose GetComment is not empty

ListingBase == 4096     \* 0x1000, the function shown in the listing
TargetBase  == 12288    \* 0x3000, the target of its bl
ObjcAddr    == 20480    \* 0x5000
SymbolSlot  == 28672    \* 0x7000, a named variable that holds a pointer

\* the pointer stored at an address
PointerAt(a) ==
    IF a = 24576 THEN ObjcAddr
    ELSE IF a = SymbolSlot THEN 16388      \* a pointer to the inside of some data
    ELSE 16384 + (a % 256)

\* read_pointer_at: fallible
ReadPointer(a) ==
    IF a \in env.unreadable THEN [ok |-> FALSE, value |-> 0]
    ELSE [ok |-> TRUE, value |-> PointerAt(a)]

\* HM.get_image_lookup_summary_from_address: symbol text or empty
get_image_lookup_summary_from_address(a) ==
    IF a = ObjcAddr THEN (IF env.objc THEN txt_lookup_objc ELSE txt_lookup_sym)
    ELSE IF a % 4096 = 0 THEN txt_lookup_sym
    ELSE <<>>

\* the output of the command "x/s <address>": "0x...: "text"\n", or nothing
\* when the string cannot be read
XsOutput(a) ==
    IF env.xs_ok THEN hex(a) \o <<":", " ">> \o txt_viewDidLoad ELSE <<>>

\* The instructions in memory: a function shown in the listing (memory_text,
\* which is ProgramText wherever a listing is annotated) and, at TargetBase,
\* the stub its bl jumps to.
ProgramText ==
    <<Ins(m_adrp, r_x8, <<>>, 1, TRUE, <<>>),
      Ins(m_add,  r_x1, r_x8, 32, TRUE, <<>>),
      Ins(m_ldr,  r_x8, r_x8, 16, TRUE, <<>>),
      Ins(m_bl,   <<>>, <<>>, TargetBase, TRUE, <<>>),
      Ins(m_ret,  <<>>, <<>>, 0, TRUE, <<>>)>>
StubText ==
    <<Ins(m_adrp, r_x8, <<>>, 3, TRUE, <<>>),
      Ins(m_ldr,  r_x8, r_x8, 0, TRUE, <<>>),
      Ins(m_adrp, r_x1, <<>>, 4, TRUE, <<>>),
      Ins(m_add,  r_x1, r_x1, 8, TRUE, <<>>),
      Ins(m_nop,  <<>>, <<>>, 0, TRUE, <<>>),
      Ins(m_str,  r_x1, r_x9, 0, TRUE, <<>>),
      Ins(m_nop,  <<>>, <<>>, 0, TRUE, <<>>),
      Ins(m_nop,  <<>>, <<>>, 0, TRUE, <<>>),
      Ins(m_nop,  <<>>, <<>>, 0, TRUE, <<>>),
      Ins(m_blr,  r_x8, <<>>, 0, TRUE, <<>>)>>

IsMapped(a) ==
    \/ a % 4 = 0 /\ a >= ListingBase /\ a < ListingBase + 4 * Len(memory_text)
    \/ a % 4 = 0 /\ a >= TargetBase /\ a < TargetBase + 4 * env.mapped
       /\ a < TargetBase + 4 * Len(StubText)

InstructionAt(a) ==
    LET raw == IF a < TargetBase THEN memory_text[((a - ListingBase) \div 4) + 1]
               ELSE StubText[((a - TargetBase) \div 4) + 1]
    IN  IF a \in env.commented THEN [raw EXCEPT !.comment = txt_native] ELSE raw

\* target.ReadInstructions(address, count): the decoded instructions from
\* `address` on, fewer than count where the mapped memory ends.  Each comes
\* with its load address.
RECURSIVE ReadInstructions(_, _)
ReadInstructions(a, count) ==
    IF count = 0 \/ ~IsMapped(a) THEN <<>>
    ELSE <<[addr |-> a, ins |-> InstructionAt(a)]>> \o ReadInstructions(a + 4, count - 1)

\* SBInstructionList.GetInstructionAtIndex (0-based): an invalid instruction
\* past the end of the list
GetInstructionAtIndex(list, i) ==
    IF i < Len(list) THEN list[i + 1]
    ELSE [addr |-> LLDB_INVALID_ADDRESS, ins |-> InvalidInstruction]

-----------------------------------------------------------------------------
(* HMReference: the register tracker (analyze_adrp, analyze_add,           *)
(* analyze_ldr, analyze_mov). Each returns its result together with the    *)
(* register dictionary it leaves behind.                                   *)

analyze_adrp(ins, addr, register_dic) ==
    IF ~ins.parses
    THEN [ok |-> FALSE, reg |-> <<>>, value |-> 0, dic |-> register_dic]
    ELSE LET v == IF ins.mnemonic = m_adrp
                  THEN calculate_adrp_result_with_immediate_and_pc_address(ins.imm, addr)[1]
                  ELSE ins.imm
         IN  [ok |-> TRUE, reg |-> ins.dst, value |-> v, dic |-> Put(register_dic, ins.dst, v)]

analyze_add(ins, register_dic) ==
    IF ~ins.parses \/ ins.src \notin DOMAIN register_dic
    THEN [ok |-> FALSE, reg |-> <<>>, value |-> 0, dic |-> register_dic]
    ELSE LET v == register_dic[ins.src] + ins.imm
         IN  [ok |-> TRUE, reg |-> ins.dst, value |-> v, dic |-> Put(register_dic, ins.dst, v)]

\* 64-bit values that do not fit the integers of the checker are kept as four
\* 16-bit limbs, most significant first.
LimbBase == 65536
Limbs64(n) == <<0, 0, n \div LimbBase, n % LimbBase>>
LimbsValue(l) == l[3] * LimbBase + l[4]

\* x & y for a mask y made of whole limbs
and64(x, y) == [k \in 1..4 |-> IF y[k] = LimbBase - 1 THEN x[k] ELSE 0]

\* (x + y) mod 2^64
add64(x, y) ==
    LET c4 == (x[4] + y[4]) \div LimbBase
        c3 == (x[3] + y[3] + c4) \div LimbBase
        c2 == (x[2] + y[2] + c3) \div LimbBase
    IN  <<(x[1] + y[1] + c2) % LimbBase, (x[2] + y[2] + c3) % LimbBase,
          (x[3] + y[3] + c4) % LimbBase, (x[4] + y[4]) % LimbBase>>

Mask32    == <<0, 0, LimbBase - 1, LimbBase - 1>>     \* 0xFFFFFFFF
HighOnes  == <<LimbBase - 1, LimbBase - 1, 0, 0>>     \* 0xFFFFFFFF00000000

\* ldrsw without the extension: the low 32 bits as they are
zero_extend_32(raw) == and64(raw, Mask32)

\* ldrsw: the value read is masked with 0xFFFFFFFF and, if bit 31 is set,
\* 0xFFFFFFFF00000000 is added
sign_extend_32(raw) ==
    LET masked == and64(raw, Mask32)
    IN  IF masked[3] >= LimbBase \div 2 THEN add64(masked, HighOnes) ELSE masked

\* one limb as four hexadecimal digits
hex4(n) ==
    <<HexLower[(n \div 4096) + 1], HexLower[((n \div 256) % 16) + 1],
      HexLower[((n \div 16) % 16) + 1], HexLower[(n % 16) + 1]>>

RECURSIVE lstrip_zeros(_)
lstrip_zeros(s) == IF Len(s) > 1 /\ s[1] = "0" THEN lstrip_zeros(Tail(s)) ELSE s

\* hex() of a value kept in limbs
hex_limbs(l) ==
    <<"0", "x">> \o lstrip_zeros(hex4(l[1]) \o hex4(l[2]) \o hex4(l[3]) \o hex4(l[4]))

\* The pointers the walks meet are below 2^31, where the extension changes
\* nothing.
sign_extend_ldrsw(raw) == LimbsValue(sign_extend_32(Limbs64(raw)))

analyze_ldr(ins, register_dic) ==
    IF ~ins.parses \/ ins.src \notin DOMAIN register_dic
    THEN [can_analyze |-> FALSE, can_get_load_address |-> FALSE, reg |-> <<>>,
          load_address |-> 0, load_result |-> 0, dic |-> register_dic]
    ELSE LET load_address == register_dic[ins.src] + ins.imm
             rd == ReadPointer(load_address)
             v  == IF ins.mnemonic = m_ldrsw THEN sign_extend_ldrsw(rd.value) ELSE rd.value
         IN  IF rd.ok
             THEN [can_analyze |-> TRUE, can_get_load_address |-> TRUE, reg |-> ins.dst,
                   load_address |-> load_address, load_result |-> v,
                   dic |-> Put(register_dic, ins.dst, v)]
             ELSE [can_analyze |-> FALSE, can_get_load_address |-> TRUE, reg |-> ins.dst,
                   load_address |-> load_address, load_result |-> 0, dic |-> register_dic]

analyze_mov(ins, register_dic) ==
    IF ~ins.parses \/ (ins.src # <<>> /\ ins.src \notin DOMAIN register_dic)
    THEN [ok |-> FALSE, reg |-> <<>>, value |-> 0, dic |-> register_dic]
    ELSE LET v == IF ins.src = <<>> THEN ins.imm ELSE register_dic[ins.src]
         IN  [ok |-> TRUE, reg |-> ins.dst, value |-> v, dic |-> Put(register_dic, ins.dst, v)]

-----------------------------------------------------------------------------
(* HMDisassemble.comment_for_branch                                        *)

\* str.split(" "): split at every single space, empty fields kept
RECURSIVE split_at_from(_, _, _, _)
split_at_from(s, sep, cur, acc) ==
    IF s = <<>> THEN Append(acc, cur)
    ELSE IF s[1] = sep THEN split_at_from(Tail(s), sep, <<>>, Append(acc, cur))
    ELSE split_at_from(Tail(s), sep, Append(cur, s[1]), acc)
split_at(s, sep) == split_at_from(s, sep, <<>>, <<>>)

instruction_count_branch == 10      \* comment_for_branch: instruction_count
\* a window one instruction longer than record_adrp_logic's
instruction_count_adrp_longer == instruction_count_branch - 1
instruction_count_adrp   == 8       \* record_adrp_logic: instruction_count

\* lines 281-299: the comment for the br/blr whose register is known
branch_comment_without_sel(ins, register_dic) ==
    LET operands       == GetOperands(ins)
        target_result  == register_dic[operands]
        lookup_summary == get_image_lookup_summary_from_address(target_result)
    IN  ins.mnemonic \o <<" ">> \o operands \o <<",", " ">> \o operands \o <<" ", "=", " ">>
            \o hex(target_result) \o <<" ">> \o lookup_summary

branch_comment(ins, register_dic) ==
    LET operands       == GetOperands(ins)
        target_result  == register_dic[operands]
        lookup_summary == get_image_lookup_summary_from_address(target_result)
        comment_text     == ins.mnemonic \o <<" ">> \o operands \o <<",", " ">> \o operands
                              \o <<" ", "=", " ">> \o hex(target_result) \o <<" ">> \o lookup_summary
    IN  IF contains(lookup_summary, txt_objc_msgSend) /\ r_x1 \in DOMAIN register_dic
        THEN LET x1_value    == register_dic[r_x1]
                 output_list == split_at(XsOutput(x1_value), " ")
             IN  IF Len(output_list) >= 2
                 THEN comment_text \o <<",", " ", "s", "e", "l", " ", "=", " ">> \o output_list[2]
                 ELSE comment_text
        ELSE comment_text

\* lines 277-319: one round of the loop over the target's instructions.
\* `done` tells that the function returned, `comment` what it returned.
BranchStep(item, register_dic) ==
    LET ins  == item.ins
        stop == [done |-> TRUE, comment |-> <<>>, dic |-> register_dic]
        go(d) == [done |-> FALSE, comment |-> <<>>, dic |-> d]
    IN  IF ins.mnemonic \in {m_br, m_blr}
        THEN IF GetOperands(ins) \notin DOMAIN register_dic THEN stop
             ELSE [done |-> TRUE, comment |-> branch_comment(ins, register_dic),
                   dic |-> register_dic]
        ELSE IF ins.mnemonic \in {m_adr, m_adrp}
        THEN LET r == analyze_adrp(ins, item.addr, register_dic)
             IN  IF ~r.ok THEN stop ELSE go(r.dic)
        ELSE IF ins.mnemonic = m_add
        THEN LET r == analyze_add(ins, register_dic)
             IN  IF ~r.ok THEN stop ELSE go(r.dic)
        ELSE IF ins.mnemonic \in {m_ldr, m_ldrsw}
        THEN LET r == analyze_ldr(ins, register_dic)
             IN  IF ~r.can_analyze THEN stop ELSE go(r.dic)
        ELSE IF ins.mnemonic = m_mov
        THEN LET r == analyze_mov(ins, register_dic)
             IN  IF ~r.ok THEN stop ELSE go(r.dic)
        ELSE IF ins.mnemonic \in {m_str, m_nop}
        THEN go(register_dic)
        ELSE stop

\* lines 260-272: the walk starts only from a literal target address at
\* which the service returned all the instructions asked for
branch_can_walk_any_size(is_valid_address, size) == is_valid_address

branch_can_walk(is_valid_address, size) ==
    is_valid_address /\ instruction_count_branch = size

\* the loop going on after an instruction that ended the walk without a
\* comment
RECURSIVE branch_walk_past_failures(_, _, _)
branch_walk_past_failures(instruction_list, i, register_dic) ==
    IF i >= instruction_count_branch THEN <<>>
    ELSE TheOne({IF r.done /\ r.comment # <<>> THEN r.comment
                 ELSE branch_walk_past_failures(instruction_list, i + 1, r.dic)
                    : r \in {BranchStep(GetInstructionAtIndex(instruction_list, i),
                                        register_dic)}})

\* lines 275-321: the loop, round i onwards.  r is the outcome of round i.
RECURSIVE branch_walk(_, _, _)
branch_walk(instruction_list, i, register_dic) ==
    IF i >= instruction_count_branch THEN <<>>
    ELSE TheOne({IF r.done THEN r.comment
                 ELSE branch_walk(instruction_list, i + 1, r.dic)
                    : r \in {BranchStep(GetInstructionAtIndex(instruction_list, i),
                                        register_dic)}})

comment_for_branch(branch_ins) ==
    TheOne({
        LET instruction_list == ReadInstructions(target.value, instruction_count_branch)
        IN  IF ~branch_can_walk(target.is_valid, Len(instruction_list)) THEN <<>>
            ELSE branch_walk(instruction_list, 0, <<>>)
            : target \in {int_value_from_string(GetOperands(branch_ins))}})

-----------------------------------------------------------------------------
(* HMDisassemble.record_branch_logic, record_adrp_logic and                *)
(* set_my_comment_in_dict                                                  *)

record_branch_logic(item, comment_dict) ==
    IF Len(item.ins.comment) > 0 THEN comment_dict
    ELSE TheOne({
             IF Len(comment_text) > 0
             THEN Put(comment_dict, item.addr, comment_text)
             ELSE comment_dict
            : comment_text \in {comment_for_branch(item.ins)}})

\* the value without its register
RegisterComment_value_only(reg, value) == hex(value)

\* "<register> = <hex value>"
RegisterComment(reg, value) == reg \o <<" ", "=", " ">> \o hex(value)

\* a round that leaves the loop whatever the instruction is
AdrpWalkStep_always_break(item, register_dic, comment_dict) ==
    [stop |-> TRUE, dic |-> register_dic, dict |-> comment_dict]

\* lines 199-252: one round of the loop over the instructions after the
\* adr/adrp. `stop` tells that the loop was left by break.
AdrpWalkStep(item, register_dic, comment_dict) ==
    LET ins     == item.ins
        comment == ins.comment
        break   == [stop |-> TRUE, dic |-> register_dic, dict |-> comment_dict]
        go(d, c) == [stop |-> FALSE, dic |-> d, dict |-> c]
    IN  IF ins.mnemonic = m_add
        THEN LET r == analyze_add(ins, register_dic)
             IN  IF ~r.ok THEN break
                 ELSE IF Len(comment) = 0
                 THEN go(r.dic, Put(comment_dict, item.addr,
                         RegisterComment(r.reg, r.value) \o <<" ">>
                             \o get_image_lookup_summary_from_address(r.value)))
                 ELSE go(r.dic, comment_dict)
        ELSE IF ins.mnemonic = m_ldr
        THEN LET r == analyze_ldr(ins, register_dic)
                 lookup_result  == IF r.can_analyze
                                   THEN get_image_lookup_summary_from_address(r.load_result)
                                   ELSE <<>>
                 lookup_summary == IF Len(lookup_result) = 0
                                   THEN get_image_lookup_summary_from_address(r.load_address)
                                   ELSE lookup_result
                 ldr_comment    == IF r.can_analyze
                                   THEN RegisterComment(r.reg, r.load_result) \o <<" ">> \o lookup_summary
                                   ELSE lookup_summary
             IN  IF ~r.can_get_load_address THEN break
                 ELSE IF Len(comment) = 0 /\ Len(ldr_comment) > 0
                 THEN go(r.dic, Put(comment_dict, item.addr, ldr_comment))
                 ELSE go(r.dic, comment_dict)
        ELSE IF ins.mnemonic = m_ldrsw
        THEN LET r == analyze_ldr(ins, register_dic)
             IN  IF ~r.can_analyze THEN break
                 ELSE IF Len(comment) = 0
                 THEN go(r.dic, Put(comment_dict, item.addr,
                         RegisterComment(r.reg, r.load_result) \o <<" ">>
                             \o get_image_lookup_summary_from_address(r.load_result)))
                 ELSE go(r.dic, comment_dict)
        ELSE IF ins.mnemonic = m_mov
        THEN LET r == analyze_mov(ins, register_dic)
             IN  IF ~r.ok THEN break
                 ELSE IF Len(comment) = 0
                 THEN go(r.dic, Put(comment_dict, item.addr, RegisterComment(r.reg, r.value)))
                 ELSE go(r.dic, comment_dict)
        ELSE IF ins.mnemonic \in {m_str, m_nop}
        THEN go(register_dic, comment_dict)
        ELSE break

\* a loop that takes an adr or adrp for a nop and goes on behind it
RECURSIVE adrp_walk_through_seeds(_, _, _, _)
adrp_walk_through_seeds(instruction_list, i, register_dic, comment_dict) ==
    IF i >= instruction_count_adrp THEN comment_dict
    ELSE IF GetInstructionAtIndex(instruction_list, i).ins.mnemonic \in {m_adr, m_adrp}
    THEN adrp_walk_through_seeds(instruction_list, i + 1, register_dic, comment_dict)
    ELSE TheOne({IF r.stop THEN r.dict
                 ELSE adrp_walk_through_seeds(instruction_list, i + 1, r.dic, r.dict)
                    : r \in {AdrpWalkStep(GetInstructionAtIndex(instruction_list, i),
                                          register_dic, comment_dict)}})

\* lines 198-252: the loop, round i onwards.  r is the outcome of round i.
RECURSIVE adrp_walk(_, _, _, _)
adrp_walk(instruction_list, i, register_dic, comment_dict) ==
    IF i >= instruction_count_adrp THEN comment_dict
    ELSE TheOne({IF r.stop THEN r.dict
                 ELSE adrp_walk(instruction_list, i + 1, r.dic, r.dict)
                    : r \in {AdrpWalkStep(GetInstructionAtIndex(instruction_list, i),
                                          register_dic, comment_dict)}})

record_adrp_logic(item, comment_dict) ==
    LET r == analyze_adrp(item.ins, item.addr, <<>>)
        seeded == IF Len(item.ins.comment) = 0
                  THEN Put(comment_dict, item.addr, RegisterComment(r.reg, r.value))
                  ELSE comment_dict
        instruction_list == ReadInstructions(item.addr + 4, instruction_count_adrp)
    IN  IF ~r.ok THEN comment_dict
        ELSE adrp_walk(instruction_list, 0, r.dic, seeded)

\* lines 156-164: the loop, round i onwards.  d is the map after round i.
RECURSIVE set_my_comment_from(_, _, _)
set_my_comment_from(instruction_list, i, comment_dict) ==
    IF i >= Len(instruction_list) THEN comment_dict
    ELSE LET item == GetInstructionAtIndex(instruction_list, i)
         IN  TheOne({set_my_comment_from(instruction_list, i + 1, d)
                        : d \in {IF item.ins.mnemonic \in {m_b, m_bl}
                                 THEN record_branch_logic(item, comment_dict)
                                 ELSE IF item.ins.mnemonic \in {m_adr, m_adrp}
                                 THEN record_adrp_logic(item, comment_dict)
                                 ELSE comment_dict}})

set_my_comment_in_dict(comment_dict, instruction_list) ==
    set_my_comment_from(instruction_list, 0, comment_dict)

-----------------------------------------------------------------------------
(* Inputs the functions are exercised on                                   *)

ImmSet == (0 - MaxImm)..MaxImm
PcSet  == {p * PageSize + o : p \in 0..MaxPage, o \in {0, 1, 4, 4095}}

TokenAlphabet == {"0", "9", "x", "X", "f", "_", "-", " "}
TokenSet == UNION {[1..n -> TokenAlphabet] : n \in 0..MaxTokLen}

AddrStride == 1327
AddrSet    == {AddrStride * k : k \in 0..MaxAddrIdx}

txt_marker   == <<"-", ">">>
txt_DemoApp  == <<"D", "e", "m", "o", "A", "p", "p">>
txt_libobjc  == <<"l", "i", "b", "o", "b", "j", "c", ".", "A", ".", "d", "y", "l", "i", "b">>
txt_nop      == <<"n", "o", "p">>
txt_adrp_x16 == <<"a", "d", "r", "p", " ", " ", " ", "x", "1", "6", ",", " ", "-", "2", "4", "3", "1", "2", "3">>
txt_ldr_x8   == <<"l", "d", "r", " ", " ", " ", " ", "x", "8", ",", " ", "[", "x", "8", ",", " ", "#", "0", "x", "1", "0", "]">>
txt_add      == <<"a", "d", "d">>
txt_dead     == <<"d", "e", "a", "d", ":">>
txt_App_beef == <<"A", "p", "p", "[", "b", "e", "e", "f", "]", ":">>
txt_x8       == <<"x", "8", ",">>
txt_0x       == <<"0", "x", ":">>
txt_label    == <<"A", "p", "p", "$", "m", "a", "i", "n", ":">>

ModuleNames == {txt_DemoApp, txt_libobjc}
LineTails   == {txt_nop, txt_adrp_x16, txt_ldr_x8}

\* " <+N>:" as lldb prints the offset of an instruction in its function
OffsetText(n) == <<" ", "<", "+">> \o str(n) \o <<">", ":">>

\* The line shapes listed in get_address_from_assemble_line (lines 123-131):
\*   1  "    0xA <+N>:  tail"        2  "->  0xA <+N>:  tail"
\*   3  "0xA: tail"                  4  "Module[0xA] <+N>:  tail"
\*   5  "Module[0xA]: tail"          6  "->  0xA: tail"
MkLine(shape, A, module, tail) ==
    CASE shape = 1 -> <<" ", " ", " ", " ">> \o hex(A) \o OffsetText(A % 64) \o <<" ", " ">> \o tail
      [] shape = 2 -> <<"-", ">", " ", " ">> \o hex(A) \o OffsetText(A % 64) \o <<" ", " ">> \o tail
      [] shape = 3 -> hex(A) \o <<":", " ">> \o tail
      [] shape = 4 -> module \o <<"[">> \o hex(A) \o <<"]">> \o OffsetText(A % 64) \o <<" ", " ">> \o tail
      [] shape = 5 -> module \o <<"[">> \o hex(A) \o <<"]", ":", " ">> \o tail
      [] OTHER     -> <<"-", ">", " ", " ">> \o hex(A) \o <<":", " ">> \o tail

ShapeLines ==
    {MkLine(sh, A, m, tl) : sh \in 1..6, A \in AddrSet, m \in ModuleNames, tl \in LineTails}

\* Lines that carry no address: tokens joined by single spaces
JunkTokens == {txt_marker, txt_add, txt_dead, txt_App_beef, txt_x8, txt_0x}
RECURSIVE join(_)
join(toks) ==
    IF toks = <<>> THEN <<>>
    ELSE IF Len(toks) = 1 THEN toks[1]
    ELSE toks[1] \o <<" ">> \o join(Tail(toks))
JunkLines == {join(ts) : ts \in UNION {[1..n -> JunkTokens] : n \in 0..(MaxJunkLen + 1)}}

LineSet == ShapeLines \cup JunkLines

-----------------------------------------------------------------------------
(* Specifications of the pure functions: the state holds the arguments and *)
(* the result of one call.                                                 *)

AdrpIdle == immediate = 0 /\ pc_address = 0 /\ result_tuple = <<>>
IntIdle  == integer_str = <<>> /\ int_result = <<>>
LineIdle == assemble_line = <<>> /\ line_result = <<>>
EnvIdle  == env = [unreadable |-> {}, objc |-> FALSE, xs_ok |-> FALSE,
                   mapped |-> 0, commented |-> {}]
BranchIdle ==
    /\ branch_instruction = InvalidInstruction
    /\ branch_pc = "idle"
    /\ instruction_list_size = 0
    /\ branch_i = 0
    /\ branch_register_dic = <<>>
    /\ branch_item = [addr |-> LLDB_INVALID_ADDRESS, ins |-> InvalidInstruction]
    /\ my_comment = <<>>
DisIdle ==
    /\ assemble_lines = <<>>
    /\ dis_pc = "idle"
    /\ line_index = 1
    /\ first_address_int = LLDB_INVALID_ADDRESS
    /\ continuous_instructions_count = 0
    /\ original_comment_index = -1
    /\ max_assemble_line_length = 0
    /\ address_comment_dict = <<>>
    /\ read_log = <<>>
    /\ result_messages = <<>>
WalkIdle ==
    /\ memory_text = ProgramText
    /\ adrp_instruction = [addr |-> LLDB_INVALID_ADDRESS, ins |-> InvalidInstruction]
    /\ walk_pc = "idle"
    /\ walk_i = 0
    /\ walk_register_dic = <<>>
    /\ walk_comment_dict = <<>>
    /\ walk_log = <<>>
    /\ walk_branch_comment = <<>>
    /\ loaded_raw = <<0, 0, 0, 0>>
    /\ ldrsw_result = <<>>
CmdIdle == command = <<>> /\ adrp_printed = <<>>
PassIdle ==
    /\ pass_instruction_list = <<>>
    /\ pass_i = 0
    /\ pass_comment_dict = <<>>
    /\ pass_writes = <<>>
RcIdle ==
    /\ frame = <<>>
    /\ g_last_registers_dict = <<>>
    /\ last_disassemble = <<>>
    /\ rc_calls = 0
    /\ rc_printed = <<>>

\* --- calculate_adrp_result_with_immediate_and_pc_address
InitAdrp ==
    /\ immediate \in ImmSet
    /\ pc_address \in PcSet
    /\ result_tuple = <<>>
    /\ IntIdle /\ LineIdle /\ EnvIdle /\ BranchIdle /\ DisIdle /\ WalkIdle /\ CmdIdle /\ RcIdle /\ PassIdle

CalculateAdrp ==
    /\ result_tuple = <<>>
    /\ result_tuple' = calculate_adrp_result_with_immediate_and_pc_address(immediate, pc_address)
    /\ UNCHANGED <<immediate, pc_address, intVars, lineVars, env, branchVars, disVars, walkVars, cmdVars, rcVars, passVars>>

\* --- int_value_from_string
InitInt ==
    /\ integer_str \in TokenSet
    /\ int_result = <<>>
    /\ AdrpIdle /\ LineIdle /\ EnvIdle /\ BranchIdle /\ DisIdle /\ WalkIdle /\ CmdIdle /\ RcIdle /\ PassIdle

IntValueFromString ==
    /\ int_result = <<>>
    /\ int_result' = <<int_value_from_string(integer_str)>>
    /\ UNCHANGED <<integer_str, adrpVars, lineVars, env, branchVars, disVars, walkVars, cmdVars, rcVars, passVars>>

\* --- get_address_from_assemble_line
InitLine ==
    /\ assemble_line \in LineSet
    /\ line_result = <<>>
    /\ AdrpIdle /\ IntIdle /\ EnvIdle /\ BranchIdle /\ DisIdle /\ WalkIdle /\ CmdIdle /\ RcIdle /\ PassIdle

GetAddressFromAssembleLine ==
    /\ line_result = <<>>
    /\ line_result' = <<get_address_from_assemble_line(assemble_line)>>
    /\ UNCHANGED <<assemble_line, adrpVars, intVars, env, branchVars, disVars, walkVars, cmdVars, rcVars, passVars>>

vars == <<adrpVars, intVars, lineVars, env, branchVars, disVars, walkVars, cmdVars, rcVars,
          passVars>>

SpecAdrp == InitAdrp /\ [][CalculateAdrp]_vars
SpecInt  == InitInt /\ [][IntValueFromString]_vars
SpecLine == InitLine /\ [][GetAddressFromAssembleLine]_vars

-----------------------------------------------------------------------------
(* Properties of the pure functions                                     *)

\* C1: for every immediate (negative ones included) and every non-negative
\* pc_address the numeric result is immediate*4096 + pc_address -
\* (pc_address mod 4096): a multiple of 4096, namely the page of pc_address
\* moved by `immediate` pages; and every pc_address of the same page (one
\* differing only in its low 12 bits) gives the same result.
C1_PageRelative ==
    result_tuple # <<>> =>
        /\ result_tuple[1] = immediate * 4096 + pc_address - (pc_address % 4096)
        /\ result_tuple[1] = (immediate + (pc_address \div 4096)) * 4096
        /\ result_tuple[2] = hex(result_tuple[1])
        /\ \A low \in 0..4095 :
              low \in {0, 1, 2048, 4095} =>
                 calculate_adrp_result_with_immediate_and_pc_address(
                     immediate, (pc_address \div 4096) * 4096 + low)[1] = result_tuple[1]

C1_Witness ==
    /\ result_tuple # <<>>
    /\ immediate < 0
    /\ pc_address % 4096 = 4095
    /\ result_tuple[1] < 0

\* Shapes of the tokens int_value_from_string is given
IsDecShape(t) == t # <<>> /\ \A i \in 1..Len(t) : t[i] \in Digits
IsHexShape(t) ==
    /\ Len(t) >= 3 /\ t[1] = "0" /\ t[2] = "x"
    /\ \A i \in 3..Len(t) : t[i] \in HexChars
RECURSIVE Denoted(_, _)
Denoted(t, base) ==
    IF t = <<>> THEN 0
    ELSE Denoted(SubSeq(t, 1, Len(t) - 1), base) * base + DigitVal(t[Len(t)])
DenotedValue(t) ==
    IF IsHexShape(t) THEN Denoted(SubSeq(t, 3, Len(t)), 16) ELSE Denoted(t, 10)

\* What Python's int() tolerates around the two shapes: single underscores
\* between digits (and one right after "0x"), trailing whitespace, and on a
\* decimal token leading whitespace and one sign.
RECURSIVE WithoutUnderscores(_)
WithoutUnderscores(t) ==
    IF t = <<>> THEN <<>>
    ELSE IF t[1] = "_" /\ Len(t) >= 2 /\ t[2] # "_"
         THEN WithoutUnderscores(Tail(t))
         ELSE <<t[1]>> \o WithoutUnderscores(Tail(t))
UnderscoresInside(t) == t # <<>> /\ t[1] # "_" /\ t[Len(t)] # "_"
TolerantHex(t) ==
    /\ startswith(t, <<"0", "x">>)
    /\ LET body == rstrip_ws(SubSeq(t, 3, Len(t)))
       IN  /\ body # <<>> /\ body[Len(body)] # "_"
           /\ IsHexShape(<<"0", "x">> \o WithoutUnderscores(body))
TolerantDec(t) ==
    LET u    == strip(t)
        body == IF u # <<>> /\ u[1] \in {"+", "-"} THEN Tail(u) ELSE u
    IN  UnderscoresInside(body) /\ IsDecShape(WithoutUnderscores(body))
TolerantValue(t) ==
    IF TolerantHex(t)
    THEN DenotedValue(<<"0", "x">> \o WithoutUnderscores(rstrip_ws(SubSeq(t, 3, Len(t)))))
    ELSE LET u == strip(t)
         IN  IF u[1] = "-" THEN 0 - DenotedValue(WithoutUnderscores(Tail(u)))
             ELSE IF u[1] = "+" THEN DenotedValue(WithoutUnderscores(Tail(u)))
             ELSE DenotedValue(WithoutUnderscores(u))

\* C3 as stated: success exactly on "0x"+hex digits and on decimal digit
\* strings, with the denoted value; failure, not an exception, otherwise.
C3_ExactlyTwoShapes ==
    int_result # <<>> =>
        LET r == int_result[1]
        IN  /\ ~r.raised
            /\ r.is_valid <=> (IsHexShape(integer_str) \/ IsDecShape(integer_str))
            /\ r.is_valid => r.value = DenotedValue(integer_str)

\* C3 (amended): int_value_from_string never raises; it succeeds, with the
\* denoted integer, on every "0x"+hex digits token and every decimal digit
\* string, and besides those exactly on the variants Python's int()
\* tolerates (single underscores between digits, trailing whitespace, and on
\* decimal tokens leading whitespace and one sign, "-" negating the value);
\* on every other token it returns (False, 0).
C3_TwoShapesAndIntTolerance ==
    int_result # <<>> =>
        LET r == int_result[1]
        IN  /\ ~r.raised
            /\ (IsHexShape(integer_str) \/ IsDecShape(integer_str)) =>
                  r.is_valid /\ r.value = DenotedValue(integer_str)
            /\ r.is_valid <=> (TolerantHex(integer_str) \/ TolerantDec(integer_str))
            /\ r.is_valid => r.value = TolerantValue(integer_str)
            /\ ~r.is_valid => r.value = 0

C3_Witness ==
    /\ int_result # <<>>
    /\ integer_str = <<"0", "x", "9", "f">>
    /\ int_result[1].is_valid
    /\ int_result[1].value = 159

\* C2: on each of the five documented line shapes carrying the address A
\* the function returns A; on a line whose address position (the first
\* token, or the second one after "->") is missing or holds a token without
\* any digit it returns LLDB_INVALID_ADDRESS.
AddressToken(line) ==
    LET k   == split(line)
        pos == IF k # <<>> /\ k[1] = txt_marker THEN 2 ELSE 1
    IN  IF Len(k) < pos THEN <<>> ELSE k[pos]
C2_AddressOfLine ==
    line_result # <<>> =>
        /\ \A sh \in 1..5, A \in AddrSet, m \in ModuleNames, tl \in LineTails :
              assemble_line = MkLine(sh, A, m, tl) => line_result[1] = A
        /\ (\A i \in 1..Len(AddressToken(assemble_line)) :
                AddressToken(assemble_line)[i] \notin Digits)
              => line_result[1] = LLDB_INVALID_ADDRESS

C2_Witness ==
    /\ line_result # <<>>
    /\ assemble_line = MkLine(2, AddrStride * 3, txt_DemoApp, txt_ldr_x8)
    /\ line_result[1] = AddrStride * 3

-----------------------------------------------------------------------------
(* comment_for_branch, one loop round per step.  The instructions at the   *)
(* target are whatever the disassembly service returns: each round draws   *)
(* one from BranchInsChoices.                                              *)

BranchInsChoices ==
    {Ins(m_adrp, r_x8, <<>>, 3, TRUE, <<>>),
     Ins(m_adrp, r_x1, <<>>, 4, TRUE, <<>>),
     Ins(m_adrp, r_x8, <<>>, 0, FALSE, <<>>),
     Ins(m_add,  r_x1, r_x1, 8, TRUE, <<>>),
     Ins(m_ldr,  r_x8, r_x8, 0, TRUE, <<>>),
     Ins(m_mov,  r_x1, r_x8, 0, TRUE, <<>>),
     Ins(m_str,  r_x1, r_x9, 0, TRUE, <<>>),
     Ins(m_nop,  <<>>, <<>>, 0, TRUE, <<>>),
     Ins(m_blr,  r_x8, <<>>, 0, TRUE, <<>>),
     Ins(m_br,   r_x9, <<>>, 0, TRUE, <<>>),
     Ins(m_ret,  <<>>, <<>>, 0, TRUE, <<>>)}

BranchEnvSet ==
    [unreadable : {{}, {24576}}, objc : BOOLEAN, xs_ok : BOOLEAN,
     mapped : {instruction_count_branch}, commented : {{}}]

InitBranch ==
    /\ env \in BranchEnvSet
    /\ branch_instruction \in {Ins(m_bl, <<>>, <<>>, TargetBase, TRUE, <<>>),
                               Ins(m_b, <<>>, <<>>, 0, FALSE, <<>>)}
    /\ branch_pc = "start"
    /\ instruction_list_size = 0
    /\ branch_i = 0
    /\ branch_register_dic = <<>>
    /\ branch_item = [addr |-> LLDB_INVALID_ADDRESS, ins |-> InvalidInstruction]
    /\ my_comment = <<>>
    /\ AdrpIdle /\ IntIdle /\ LineIdle /\ DisIdle /\ WalkIdle /\ CmdIdle /\ RcIdle /\ PassIdle

\* lines 260-275: parse the target, read the instructions there
BranchRead ==
    /\ branch_pc = "start"
    /\ LET target == int_value_from_string(GetOperands(branch_instruction))
       IN  \E size \in 0..instruction_count_branch :
              /\ target.is_valid \/ size = 0
              /\ instruction_list_size' = size
              /\ branch_pc' = IF branch_can_walk(target.is_valid, size) THEN "walk" ELSE "done"
    /\ UNCHANGED <<branch_instruction, branch_i, branch_register_dic, branch_item, my_comment>>
    /\ UNCHANGED <<adrpVars, intVars, lineVars, env, disVars, walkVars, cmdVars, rcVars, passVars>>

\* lines 276-319: one round of the loop
BranchLoop ==
    /\ branch_pc = "walk"
    /\ branch_i < instruction_count_branch
    /\ \E ins \in BranchInsChoices :
          LET item == IF branch_i < instruction_list_size
                      THEN [addr |-> branch_instruction.imm + 4 * branch_i, ins |-> ins]
                      ELSE [addr |-> LLDB_INVALID_ADDRESS, ins |-> InvalidInstruction]
              r    == BranchStep(item, branch_register_dic)
          IN  /\ branch_item' = item
              /\ IF r.done
                 THEN /\ branch_pc' = "done"
                      /\ my_comment' = r.comment
                      /\ UNCHANGED <<branch_i, branch_register_dic>>
                 ELSE /\ branch_i' = branch_i + 1
                      /\ branch_register_dic' = r.dic
                      /\ UNCHANGED <<branch_pc, my_comment>>
    /\ UNCHANGED <<branch_instruction, instruction_list_size>>
    /\ UNCHANGED <<adrpVars, intVars, lineVars, env, disVars, walkVars, cmdVars, rcVars, passVars>>

\* line 321: the loop ran out
BranchLoopEnd ==
    /\ branch_pc = "walk"
    /\ branch_i = instruction_count_branch
    /\ branch_pc' = "done"
    /\ my_comment' = <<>>
    /\ UNCHANGED <<branch_instruction, instruction_list_size, branch_i, branch_register_dic,
                   branch_item>>
    /\ UNCHANGED <<adrpVars, intVars, lineVars, env, disVars, walkVars, cmdVars, rcVars, passVars>>

NextBranch == BranchRead \/ BranchLoop \/ BranchLoopEnd

SpecBranch == InitBranch /\ [][NextBranch]_vars

-----------------------------------------------------------------------------
(* Properties of comment_for_branch                                     *)

endswith(s, suffix) ==
    /\ Len(s) >= Len(suffix)
    /\ SubSeq(s, Len(s) - Len(suffix) + 1, Len(s)) = suffix

\* C9: when the disassembly service returns fewer than 10 instructions at
\* the branch target, comment_for_branch returns the empty string (it
\* returns; no instruction is looked at).
C9_FewerThanTenIsEmpty ==
    (branch_pc # "start" /\ instruction_list_size < 10) =>
        /\ branch_pc = "done"
        /\ my_comment = <<>>
        /\ branch_i = 0
        /\ branch_register_dic = <<>>

C9_Witness ==
    /\ branch_pc = "done"
    /\ branch_instruction.parses
    /\ instruction_list_size = 9
    /\ my_comment = <<>>

\* The case of C10: ten instructions were returned, the first nine were
\* analysed, the tenth is "blr x8" and x8 is in the register state.
TenEndingInBlrX8 ==
    /\ branch_pc = "done"
    /\ instruction_list_size = 10
    /\ branch_i = 9
    /\ branch_item.ins.mnemonic = m_blr
    /\ branch_item.ins.dst = r_x8
    /\ r_x8 \in DOMAIN branch_register_dic

X8IsMsgSend ==
    contains(get_image_lookup_summary_from_address(branch_register_dic[r_x8]),
             txt_objc_msgSend)

SelSuffix ==
    <<",", " ", "s", "e", "l", " ", "=", " ">>
        \o split_at(XsOutput(branch_register_dic[r_x1]), " ")[2]

\* C10 as stated: the comment contains the hex of x8's value and, when the
\* symbol text contains objc_msgSend and x1 is known, ends with the suffix
\* ", sel = <string>".
C10_SelWheneverX1Known ==
    TenEndingInBlrX8 =>
        /\ contains(my_comment, hex(branch_register_dic[r_x8]))
        /\ (X8IsMsgSend /\ r_x1 \in DOMAIN branch_register_dic) =>
              contains(my_comment, <<",", " ", "s", "e", "l", " ", "=", " ">>)

\* C10 (amended): the comment is "blr x8, x8 = <hex of x8's value> <symbol
\* text>"; when the symbol text contains objc_msgSend, x1 is known and the
\* string read at x1's value ("x/s") produces output, the comment ends with
\* ", sel = " and the second space-separated field of that output; in every
\* other case nothing follows the symbol text.
C10_SelWhenStringRead ==
    TenEndingInBlrX8 =>
        LET v    == branch_register_dic[r_x8]
            base == m_blr \o <<" ">> \o r_x8 \o <<",", " ">> \o r_x8 \o <<" ", "=", " ">>
                        \o hex(v) \o <<" ">> \o get_image_lookup_summary_from_address(v)
        IN  /\ contains(my_comment, hex(v))
            /\ IF X8IsMsgSend /\ r_x1 \in DOMAIN branch_register_dic /\ env.xs_ok
               THEN my_comment = base \o SelSuffix /\ endswith(my_comment, txt_viewDidLoad)
               ELSE my_comment = base

C10_Witness ==
    /\ TenEndingInBlrX8
    /\ X8IsMsgSend
    /\ r_x1 \in DOMAIN branch_register_dic
    /\ env.xs_ok
    /\ endswith(my_comment, SelSuffix)

-----------------------------------------------------------------------------
(* enhanced_disassemble on an arm64 target, one loop round per step        *)

\* A line of "disassemble" for the instruction at address a of the listed
\* function: marker or indentation, address, offset, mnemonic column,
\* operands, and the native comment if lldb printed one (lldb fills the
\* operands to their column before a comment).
FormatLine(marked, a, native) ==
    LET ins == ProgramText[((a - ListingBase) \div 4) + 1]
    IN  (IF marked THEN <<"-", ">", " ", " ">> ELSE <<" ", " ", " ", " ">>)
            \o hex(a) \o OffsetText(a - ListingBase) \o <<" ", " ">>
            \o ljust(ins.mnemonic, 7)
            \o (IF native
                THEN ljust(GetOperands(ins), 25) \o <<" ", ";", " ">> \o txt_native
                ELSE GetOperands(ins))

\* A source line of "disassemble --mixed": indentation, line number, text.
\* A statement of C or Objective-C ends with a semicolon, one of Swift
\* does not.
SourceLine(n, semicolon) ==
    <<" ", " ", " ">> \o str(n) \o <<" ", " ", " ", "\t", "x", " ", "=", " ">> \o str(n)
        \o (IF semicolon THEN <<";">> ELSE <<>>)

\* The lines a listing is made of.  kind: "ins" for an instruction of the
\* program (addr its address), "src" for a source line (addr its line
\* number), "other" for a label.
Catalogue ==
    <<[kind |-> "ins",   addr |-> ListingBase,      text |-> FormatLine(FALSE, ListingBase, FALSE)],
      [kind |-> "ins",   addr |-> ListingBase,      text |-> FormatLine(TRUE, ListingBase, TRUE)],
      [kind |-> "ins",   addr |-> ListingBase + 4,  text |-> FormatLine(FALSE, ListingBase + 4, FALSE)],
      [kind |-> "ins",   addr |-> ListingBase + 8,  text |-> FormatLine(FALSE, ListingBase + 8, FALSE)],
      [kind |-> "ins",   addr |-> ListingBase + 12, text |-> FormatLine(FALSE, ListingBase + 12, FALSE)],
      [kind |-> "other", addr |-> 0,                text |-> txt_label],
      [kind |-> "src",   addr |-> 14,               text |-> SourceLine(14, FALSE)],
      [kind |-> "src",   addr |-> 15,               text |-> SourceLine(15, TRUE)]>>

\* lldb prints instructions in address order, 4 bytes apart, sets source
\* lines off from instructions, and numbers source lines upwards.
ListingShape(l) ==
    \A i \in 1..(Len(l) - 1) :
        LET a == Catalogue[l[i]]
            b == Catalogue[l[i + 1]]
        IN  /\ (a.kind = "ins" /\ b.kind = "ins") => b.addr = a.addr + 4
            /\ (a.kind = "src" /\ b.kind = "src") => b.addr = a.addr + 1
            /\ ~(a.kind = "ins" /\ b.kind = "src")
            /\ ~(a.kind = "src" /\ b.kind = "ins")

Listings ==
    {[i \in 1..Len(l) |-> Catalogue[l[i]].text] :
        l \in {x \in UNION {[1..n -> 1..Len(Catalogue)] : n \in 0..MaxLines} : ListingShape(x)}}

DisEnvSet ==
    {[unreadable |-> {}, objc |-> TRUE, xs_ok |-> TRUE,
      mapped |-> instruction_count_branch, commented |-> {}],
     [unreadable |-> {8208}, objc |-> FALSE, xs_ok |-> FALSE,
      mapped |-> instruction_count_branch - 1, commented |-> {ListingBase + 4}],
     [unreadable |-> {}, objc |-> TRUE, xs_ok |-> FALSE,
      mapped |-> instruction_count_branch, commented |-> {ListingBase}]}

InitDis ==
    /\ env \in DisEnvSet
    /\ assemble_lines \in Listings
    /\ dis_pc = "scan"
    /\ line_index = 1
    /\ first_address_int = LLDB_INVALID_ADDRESS
    /\ continuous_instructions_count = 0
    /\ original_comment_index = -1
    /\ max_assemble_line_length = 0
    /\ address_comment_dict = <<>>
    /\ read_log = <<>>
    /\ result_messages = <<>>
    /\ AdrpIdle /\ IntIdle /\ LineIdle /\ BranchIdle /\ WalkIdle /\ CmdIdle /\ RcIdle /\ PassIdle

\* lines 77-80 and 101-104: read the run's instructions, annotate them
RunIsOpen == first_address_int # LLDB_INVALID_ADDRESS /\ continuous_instructions_count > 0

AnnotateRun ==
    /\ address_comment_dict' =
          set_my_comment_in_dict(address_comment_dict,
              ReadInstructions(first_address_int, continuous_instructions_count))
    /\ read_log' = Append(read_log, [first |-> first_address_int,
                                     count |-> continuous_instructions_count,
                                     at    |-> line_index])

\* lines 75-88: the open run after a line.  A line without an address closes
\* the run ("Reset variables"); a line with one opens a run or extends it.
continuous_run_without_reset(address_int, first, count) ==
    IF address_int = LLDB_INVALID_ADDRESS
    THEN [first |-> first, count |-> count]
    ELSE [first |-> IF first = LLDB_INVALID_ADDRESS THEN address_int ELSE first,
          count |-> count + 1]

continuous_run(address_int, first, count) ==
    IF address_int = LLDB_INVALID_ADDRESS
    THEN [first |-> LLDB_INVALID_ADDRESS, count |-> 0]
    ELSE [first |-> IF first = LLDB_INVALID_ADDRESS THEN address_int ELSE first,
          count |-> count + 1]

\* lines 73-93: one round of the loop "Read continuous instructions"
ScanLine ==
    /\ dis_pc = "scan"
    /\ line_index <= Len(assemble_lines)
    /\ LET line        == assemble_lines[line_index]
           address_int == get_address_from_assemble_line(line)
           run         == continuous_run(address_int, first_address_int,
                                         continuous_instructions_count)
       IN  /\ first_address_int' = run.first
           /\ continuous_instructions_count' = run.count
           /\ IF address_int = LLDB_INVALID_ADDRESS
              THEN /\ IF RunIsOpen THEN AnnotateRun
                      ELSE UNCHANGED <<address_comment_dict, read_log>>
                   /\ UNCHANGED <<original_comment_index, max_assemble_line_length>>
              ELSE /\ original_comment_index' =
                         IF original_comment_index = -1 /\ rfind(line, ";") >= 0
                         THEN rfind(line, ";") ELSE original_comment_index
                   /\ max_assemble_line_length' =
                         IF Len(line) > max_assemble_line_length
                         THEN Len(line) ELSE max_assemble_line_length
                   /\ UNCHANGED <<address_comment_dict, read_log>>
    /\ line_index' = line_index + 1
    /\ UNCHANGED <<assemble_lines, dis_pc, result_messages>>
    /\ UNCHANGED <<adrpVars, intVars, lineVars, env, branchVars, walkVars, cmdVars, rcVars, passVars>>

\* the end of the scan without "Read last continuous instructions"
ScanEnd_without_last_read ==
    /\ dis_pc = "scan"
    /\ line_index > Len(assemble_lines)
    /\ original_comment_index' =
          IF original_comment_index = -1 THEN max_assemble_line_length + 4
          ELSE original_comment_index
    /\ dis_pc' = "print"
    /\ line_index' = 1
    /\ UNCHANGED <<assemble_lines, first_address_int, continuous_instructions_count,
                   max_assemble_line_length, result_messages, address_comment_dict, read_log>>
    /\ UNCHANGED <<adrpVars, intVars, lineVars, env, branchVars, walkVars, cmdVars, rcVars, passVars>>

\* lines 95-104: after the loop, fix the comment column and read the last run
ScanEnd ==
    /\ dis_pc = "scan"
    /\ line_index > Len(assemble_lines)
    /\ original_comment_index' =
          IF original_comment_index = -1 THEN max_assemble_line_length + 4
          ELSE original_comment_index
    /\ IF RunIsOpen THEN AnnotateRun ELSE UNCHANGED <<address_comment_dict, read_log>>
    /\ dis_pc' = "print"
    /\ line_index' = 1
    /\ UNCHANGED <<assemble_lines, first_address_int, continuous_instructions_count,
                   max_assemble_line_length, result_messages>>
    /\ UNCHANGED <<adrpVars, intVars, lineVars, env, branchVars, walkVars, cmdVars, rcVars, passVars>>

\* lines 108-119: the text emitted for one line
output_line_overwriting(line, comment_dict, comment_index) ==
    TheOne({
        IF address_int = LLDB_INVALID_ADDRESS THEN line
        ELSE IF address_int \in DOMAIN comment_dict
        THEN ljust(line, comment_index) \o <<";", " ">> \o comment_dict[address_int]
        ELSE line
            : address_int \in {get_address_from_assemble_line(line)}})

output_line(line, comment_dict, comment_index) ==
    TheOne({
        LET is_contain_comment == \E i \in 1..Len(line) : line[i] = ";"
        IN  IF address_int = LLDB_INVALID_ADDRESS THEN line
            ELSE IF is_contain_comment THEN line
            ELSE IF address_int \in DOMAIN comment_dict
            THEN ljust(line, comment_index) \o <<";", " ">> \o comment_dict[address_int]
            ELSE line
            : address_int \in {get_address_from_assemble_line(line)}})

\* lines 107-119: one round of the loop "Print result"
PrintLine ==
    /\ dis_pc = "print"
    /\ line_index <= Len(assemble_lines)
    /\ result_messages' = Append(result_messages,
          output_line(assemble_lines[line_index], address_comment_dict, original_comment_index))
    /\ line_index' = line_index + 1
    /\ UNCHANGED <<assemble_lines, dis_pc, first_address_int, continuous_instructions_count,
                   original_comment_index, max_assemble_line_length, address_comment_dict,
                   read_log>>
    /\ UNCHANGED <<adrpVars, intVars, lineVars, env, branchVars, walkVars, cmdVars, rcVars, passVars>>

PrintEnd ==
    /\ dis_pc = "print"
    /\ line_index > Len(assemble_lines)
    /\ dis_pc' = "done"
    /\ UNCHANGED <<assemble_lines, line_index, first_address_int,
                   continuous_instructions_count, original_comment_index,
                   max_assemble_line_length, address_comment_dict, read_log,
                   result_messages>>
    /\ UNCHANGED <<adrpVars, intVars, lineVars, env, branchVars, walkVars, cmdVars, rcVars, passVars>>

NextDis == ScanLine \/ ScanEnd \/ PrintLine \/ PrintEnd

SpecDis == InitDis /\ [][NextDis]_vars

-----------------------------------------------------------------------------
(* Properties of enhanced_disassemble                                      *)

HasAddress(line) == get_address_from_assemble_line(line) # LLDB_INVALID_ADDRESS
HasSemicolon(line) == find(line, ";") >= 0

\* a map with a comment for every address a line of a listing can parse to
FullCommentDict ==
    [a \in {Catalogue[k].addr : k \in 1..Len(Catalogue)} |-> <<"z">>]

AllAddressLinesCommented ==
    \A i \in 1..Len(assemble_lines) :
        HasAddress(assemble_lines[i]) => HasSemicolon(assemble_lines[i])

\* C4: a line that already contains ';' is emitted as it is, whatever the
\* address-to-comment map holds for its address; so a listing whose
\* address-bearing lines all contain ';' is emitted unchanged, line for line.
C4_CommentedLinesUnchanged ==
    /\ \A i \in 1..Len(result_messages) :
          HasSemicolon(assemble_lines[i]) => result_messages[i] = assemble_lines[i]
    /\ \A i \in 1..Len(assemble_lines) :
          HasSemicolon(assemble_lines[i]) =>
              output_line(assemble_lines[i], FullCommentDict, original_comment_index)
                  = assemble_lines[i]
    /\ (dis_pc = "done" /\ AllAddressLinesCommented) => result_messages = assemble_lines

C4_Witness ==
    /\ dis_pc = "done"
    /\ AllAddressLinesCommented
    /\ \E i \in 1..Len(assemble_lines) :
          /\ HasSemicolon(assemble_lines[i])
          /\ get_address_from_assemble_line(assemble_lines[i]) \in DOMAIN address_comment_dict
          /\ result_messages[i] = assemble_lines[i]

\* out is the line followed by spaces, "; " and the comment
IsAnnotationOf(out, line, comment_text) ==
    \E pad \in 0..(Len(out) - Len(line)) :
        out = line \o [k \in 1..pad |-> " "] \o <<";", " ">> \o comment_text

RunLines(r) == (r.at - r.count)..(r.at - 1)

\* C6: the lines of every run handed to the annotator have addresses that
\* go up by exactly 4 from each line to the next.
C6_RunsStepByFour ==
    \A k \in 1..Len(read_log) :
        \A j \in RunLines(read_log[k]) :
            (j + 1) \in RunLines(read_log[k]) =>
                get_address_from_assemble_line(assemble_lines[j + 1])
                    = get_address_from_assemble_line(assemble_lines[j]) + 4

\* the scan loop has gone past line j
Scanned(j) == dis_pc # "scan" \/ line_index > j

\* C7: a line without an address closes the run.  Every read is for a
\* stretch of address-bearing lines bounded on both sides by a line without
\* an address or by an end of the listing, and the stretch before such a
\* line is read when the line is met, apart from whatever follows the line.
C7_NonAddressLineClosesRun ==
    /\ \A k \in 1..Len(read_log) :
          LET r == read_log[k]
          IN  /\ r.count >= 1
              /\ r.at - r.count >= 1
              /\ r.at <= Len(assemble_lines) + 1
              /\ \A j \in RunLines(r) : HasAddress(assemble_lines[j])
              /\ r.first = get_address_from_assemble_line(assemble_lines[r.at - r.count])
              /\ r.at <= Len(assemble_lines) => ~HasAddress(assemble_lines[r.at])
              /\ r.at - r.count >= 2 => ~HasAddress(assemble_lines[r.at - r.count - 1])
    /\ \A j \in 2..Len(assemble_lines) :
          (Scanned(j) /\ ~HasAddress(assemble_lines[j]) /\ HasAddress(assemble_lines[j - 1]))
              => \E k \in 1..Len(read_log) : read_log[k].at = j

C7_Witness ==
    /\ dis_pc = "done"
    /\ Len(read_log) = 2
    /\ read_log[2].first = read_log[1].first + 4 * read_log[1].count
    /\ read_log[2].at - read_log[2].count = read_log[1].at + 1

\* the column the code computes for the comments it adds
CommentColumn ==
    IF \E i \in 1..Len(assemble_lines) :
          HasAddress(assemble_lines[i]) /\ HasSemicolon(assemble_lines[i])
    THEN LET i == CHOOSE i \in 1..Len(assemble_lines) :
                     /\ HasAddress(assemble_lines[i]) /\ HasSemicolon(assemble_lines[i])
                     /\ \A j \in 1..(i - 1) :
                           ~(HasAddress(assemble_lines[j]) /\ HasSemicolon(assemble_lines[j]))
         IN  rfind(assemble_lines[i], ";")
    ELSE max_assemble_line_length + 4

\* C8: in the emitted listing every added comment starts at one column, the
\* column of a comment the listing already had or else the greatest length
\* of an address-bearing line plus 4.
C8_FixedCommentColumn ==
    dis_pc = "done" =>
        /\ original_comment_index = CommentColumn
        /\ \A i \in 1..Len(result_messages) :
              result_messages[i] # assemble_lines[i] =>
                  find(result_messages[i], ";") = original_comment_index

-----------------------------------------------------------------------------
(* The value an ldrsw records: HMReference.analyze_ldr widens the 32-bit   *)
(* value read, record_adrp_logic (lines 231-239) shows it in the comment.  *)

MaxEdge == 2

\* limbs around the edges of the 16-bit range and around bit 15
EdgeLimbs ==
    {n \in 0..(LimbBase - 1) :
        \E e \in {0, LimbBase \div 2, LimbBase - 1} : n >= e - MaxEdge /\ n <= e + MaxEdge}

RawSet == {<<a, b, hi, lo>> : a \in {0, 1}, b \in {0, LimbBase - 1}, hi \in EdgeLimbs, lo \in EdgeLimbs}

InitLdrsw ==
    /\ loaded_raw \in RawSet
    /\ ldrsw_result = <<>>
    /\ memory_text = ProgramText
    /\ adrp_instruction = [addr |-> LLDB_INVALID_ADDRESS, ins |-> InvalidInstruction]
    /\ walk_pc = "idle"
    /\ walk_i = 0
    /\ walk_register_dic = <<>>
    /\ walk_comment_dict = <<>>
    /\ walk_log = <<>>
    /\ walk_branch_comment = <<>>
    /\ AdrpIdle /\ IntIdle /\ LineIdle /\ EnvIdle /\ BranchIdle /\ DisIdle /\ CmdIdle /\ RcIdle /\ PassIdle

\* lines 232-238 for 'ldrsw x8, [...]': load_result_int is the widened value,
\* the lookup of an address outside every image is empty
AnalyzeLdrsw ==
    /\ ldrsw_result = <<>>
    /\ ldrsw_result' =
          TheOne({<<load_result, r_x8 \o <<" ", "=", " ">> \o hex_limbs(load_result) \o <<" ">> >>
                    : load_result \in {sign_extend_32(loaded_raw)}})
    /\ UNCHANGED <<memory_text, adrp_instruction, walk_pc, walk_i, walk_register_dic,
                   walk_comment_dict, walk_log, walk_branch_comment, loaded_raw>>
    /\ UNCHANGED <<adrpVars, intVars, lineVars, env, branchVars, disVars, cmdVars, rcVars, passVars>>

SpecLdrsw == InitLdrsw /\ [][AnalyzeLdrsw]_vars

\* C11: an ldrsw whose 32-bit value has bit 31 set records, and shows in its
\* comment, that value with the upper 32 bits all set (raw 0x80000001 gives
\* 0xffffffff80000001); a value with bit 31 clear is recorded as it is.
C11_LdrswSignExtends ==
    ldrsw_result # <<>> =>
        LET hi == loaded_raw[3]
            lo == loaded_raw[4]
        IN  IF hi >= 32768
            THEN /\ ldrsw_result[1] = <<65535, 65535, hi, lo>>
                 /\ ldrsw_result[2] = r_x8 \o <<" ", "=", " ", "0", "x", "f", "f", "f", "f", "f", "f", "f", "f">>
                                        \o hex4(hi) \o hex4(lo) \o <<" ">>
            ELSE /\ ldrsw_result[1] = <<0, 0, hi, lo>>
                 /\ ldrsw_result[2] = r_x8 \o <<" ", "=", " ">> \o hex(hi * 65536 + lo) \o <<" ">>

\* raw 0x80000001 has been recorded as 0xffffffff80000001
C11_Witness ==
    /\ loaded_raw[3] = 32768 /\ loaded_raw[4] = 1
    /\ ldrsw_result # <<>>
    /\ ldrsw_result[1] = <<65535, 65535, 32768, 1>>
    /\ contains(ldrsw_result[2], <<"0", "x", "f", "f", "f", "f", "f", "f", "f", "f", "8", "0", "0", "0", "0", "0", "0", "1">>)

-----------------------------------------------------------------------------
(* HMDisassemble.record_adrp_logic, one round of its loop at a time, and   *)
(* comment_for_branch for a bl to the same instructions                    *)

MaxBody == 2

WalkSeeds ==
    {Ins(m_adrp, r_x8, <<>>, 100, TRUE, <<>>),      \* x8 = 0x65000
     Ins(m_adrp, r_x8, <<>>, 6, TRUE, <<>>),        \* x8 = SymbolSlot
     Ins(m_adrp, r_x8, <<>>, 5, TRUE, <<>>)}        \* x8 = 0x6000, where ObjcAddr is stored

WalkBodyInstructions ==
    {Ins(m_add,   r_x1, r_x8, 32, TRUE, <<>>),
     Ins(m_ldr,   r_x9, r_x8, 0, TRUE, <<>>),
     Ins(m_ldrsw, r_x9, r_x8, 0, TRUE, <<>>),
     Ins(m_ldr,   r_x8, r_x8, 0, TRUE, <<>>),
     Ins(m_mov,   r_x1, r_x9, 0, TRUE, <<>>),
     Ins(m_adrp,  r_x9, <<>>, 2, TRUE, <<>>),
     Ins(m_nop,   <<>>, <<>>, 0, TRUE, <<>>),
     Ins(m_ret,   <<>>, <<>>, 0, TRUE, <<>>)}

WalkLastInstructions ==
    {Ins(m_add, r_x1, r_x8, 32, TRUE, <<>>),
     Ins(m_blr, r_x9, <<>>, 0, TRUE, <<>>)}

\* str and nop in turn
Filler(n) ==
    [k \in 1..n |-> IF k % 2 = 1 THEN Ins(m_str, r_x1, r_x9, 0, TRUE, <<>>)
                    ELSE Ins(m_nop, <<>>, <<>>, 0, TRUE, <<>>)]

\* A function: perhaps a nop, the adrp, a few instructions, and then either
\* the end of the mapped memory or str/nop up to a last instruction.
WalkTexts ==
    {Filler(lead) \o <<seed>> \o body \o
        (IF total = 0 THEN <<>>
         ELSE Filler(total - lead - Len(body) - 2) \o <<last>>)
        : lead \in {0, 1}, seed \in WalkSeeds,
          body \in UNION {[1..n -> WalkBodyInstructions] : n \in 0..MaxBody},
          total \in {0} \cup (instruction_count_adrp + 1)..(instruction_count_adrp + 2),
          last \in WalkLastInstructions}

WalkEnvSet ==
    {[unreadable |-> {}, objc |-> TRUE, xs_ok |-> TRUE, mapped |-> 0, commented |-> {}],
     [unreadable |-> {SymbolSlot, 24576}, objc |-> TRUE, xs_ok |-> TRUE, mapped |-> 0,
      commented |-> {}],
     [unreadable |-> {}, objc |-> FALSE, xs_ok |-> FALSE, mapped |-> 0,
      commented |-> {ListingBase + 4, ListingBase + 12}]}

\* the adr/adrp instructions of the function, as set_my_comment_in_dict
\* hands them to record_adrp_logic
SeedsOf(text) ==
    {[addr |-> ListingBase + 4 * (k - 1), ins |-> InstructionAt(ListingBase + 4 * (k - 1))] :
        k \in {j \in 1..Len(text) : text[j].mnemonic \in {m_adr, m_adrp}}}


\* the bl whose target is the function
BranchToListing == Ins(m_bl, <<>>, <<>>, ListingBase, TRUE, <<>>)

InitWalk ==
    /\ memory_text \in WalkTexts
    /\ env \in WalkEnvSet
    /\ adrp_instruction \in SeedsOf(memory_text)
    /\ walk_pc = "start"
    /\ walk_i = 0
    /\ walk_register_dic = <<>>
    /\ walk_comment_dict = <<>>
    /\ walk_log = <<>>
    /\ walk_branch_comment = <<>>
    /\ loaded_raw = <<0, 0, 0, 0>>
    /\ ldrsw_result = <<>>
    /\ AdrpIdle /\ IntIdle /\ LineIdle /\ BranchIdle /\ DisIdle /\ CmdIdle /\ RcIdle /\ PassIdle

\* an adr/adrp that has a native comment is left alone, as a b or bl is
WalkSeed_skipping_commented ==
    /\ walk_pc = "start"
    /\ LET r == analyze_adrp(adrp_instruction.ins, adrp_instruction.addr, <<>>)
       IN  IF ~r.ok \/ Len(adrp_instruction.ins.comment) > 0
           THEN /\ walk_pc' = "done"
                /\ UNCHANGED <<walk_register_dic, walk_comment_dict>>
           ELSE /\ walk_pc' = "walk"
                /\ walk_register_dic' = r.dic
                /\ walk_comment_dict' =
                      Put(walk_comment_dict, adrp_instruction.addr,
                          RegisterComment(r.reg, r.value))
    /\ UNCHANGED <<memory_text, adrp_instruction, walk_i, walk_log, walk_branch_comment,
                   loaded_raw, ldrsw_result>>
    /\ UNCHANGED <<adrpVars, intVars, lineVars, env, branchVars, disVars, cmdVars, rcVars, passVars>>

\* lines 180-197: the adr/adrp itself
WalkSeed ==
    /\ walk_pc = "start"
    /\ LET r == analyze_adrp(adrp_instruction.ins, adrp_instruction.addr, <<>>)
       IN  IF ~r.ok
           THEN /\ walk_pc' = "done"
                /\ UNCHANGED <<walk_register_dic, walk_comment_dict>>
           ELSE /\ walk_pc' = "walk"
                /\ walk_register_dic' = r.dic
                /\ walk_comment_dict' =
                      IF Len(adrp_instruction.ins.comment) = 0
                      THEN Put(walk_comment_dict, adrp_instruction.addr,
                               RegisterComment(r.reg, r.value))
                      ELSE walk_comment_dict
    /\ UNCHANGED <<memory_text, adrp_instruction, walk_i, walk_log, walk_branch_comment,
                   loaded_raw, ldrsw_result>>
    /\ UNCHANGED <<adrpVars, intVars, lineVars, env, branchVars, disVars, cmdVars, rcVars, passVars>>

\* lines 198-252: one round of the loop.  walk_log keeps, for the round, the
\* instruction looked at, the register state it met and whether the loop was
\* left.
WalkLoop ==
    /\ walk_pc = "walk"
    /\ walk_i < instruction_count_adrp
    /\ LET instruction_list == ReadInstructions(adrp_instruction.addr + 4, instruction_count_adrp)
           item == GetInstructionAtIndex(instruction_list, walk_i)
       IN  \E r \in {AdrpWalkStep(item, walk_register_dic, walk_comment_dict)} :
              /\ walk_log' = Append(walk_log, [item |-> item, dic |-> walk_register_dic,
                                               stop |-> r.stop])
              /\ walk_register_dic' = r.dic
              /\ walk_comment_dict' = r.dict
              /\ IF r.stop
                 THEN walk_pc' = "done" /\ UNCHANGED walk_i
                 ELSE walk_pc' = "walk" /\ walk_i' = walk_i + 1
    /\ UNCHANGED <<memory_text, adrp_instruction, walk_branch_comment, loaded_raw, ldrsw_result>>
    /\ UNCHANGED <<adrpVars, intVars, lineVars, env, branchVars, disVars, cmdVars, rcVars, passVars>>

\* line 198: range(instruction_count) is used up
WalkLoopEnd ==
    /\ walk_pc = "walk"
    /\ walk_i >= instruction_count_adrp
    /\ walk_pc' = "done"
    /\ UNCHANGED <<memory_text, adrp_instruction, walk_i, walk_register_dic, walk_comment_dict,
                   walk_log, walk_branch_comment, loaded_raw, ldrsw_result>>
    /\ UNCHANGED <<adrpVars, intVars, lineVars, env, branchVars, disVars, cmdVars, rcVars, passVars>>

\* comment_for_branch (lines 257-321) for a bl to the function
BranchWalk ==
    /\ walk_pc = "done"
    /\ walk_branch_comment = <<>>
    /\ walk_branch_comment' = <<comment_for_branch(BranchToListing)>>
    /\ UNCHANGED <<memory_text, adrp_instruction, walk_pc, walk_i, walk_register_dic,
                   walk_comment_dict, walk_log, loaded_raw, ldrsw_result>>
    /\ UNCHANGED <<adrpVars, intVars, lineVars, env, branchVars, disVars, cmdVars, rcVars, passVars>>

NextWalk == WalkSeed \/ WalkLoop \/ WalkLoopEnd \/ BranchWalk

SpecWalk == InitWalk /\ [][NextWalk]_vars

\* the rounds taken one at a time leave the map record_adrp_logic returns
WalkAgreesWithFunction ==
    walk_pc = "done" => walk_comment_dict = record_adrp_logic(adrp_instruction, <<>>)

-----------------------------------------------------------------------------
(* Properties of the forward walk                                          *)

NoNativeComment(item) == Len(item.ins.comment) = 0

\* the value an adrp at pc gives its register
PageOf(imm, pc) == imm * 4096 + pc - (pc % 4096)

\* the first round looked at 'add xM, xN, #k' with xN the adrp's register
AddFollowsSeed ==
    /\ Len(walk_log) >= 1
    /\ walk_log[1].item.ins.mnemonic = m_add
    /\ walk_log[1].item.ins.parses
    /\ walk_log[1].item.ins.src = adrp_instruction.ins.dst

\* C12: the adrp of a walk is annotated "xN = hex(imm*4096 + pc - pc mod
\* 4096)" and an 'add xM, xN, #k' right after it "xM = hex(that value + k)",
\* the walk going on after the add (where lldb gave the instruction no
\* comment of its own).
C12_AdrpAddChain ==
    (walk_pc # "start" /\ adrp_instruction.ins.mnemonic = m_adrp) =>
        LET pc == adrp_instruction.addr
            xN == PageOf(adrp_instruction.ins.imm, pc)
        IN  /\ NoNativeComment(adrp_instruction) =>
                   /\ pc \in DOMAIN walk_comment_dict
                   /\ walk_comment_dict[pc] =
                          adrp_instruction.ins.dst \o <<" ", "=", " ">> \o hex(xN)
            /\ AddFollowsSeed =>
                   /\ ~walk_log[1].stop
                   /\ NoNativeComment(walk_log[1].item) =>
                          /\ (pc + 4) \in DOMAIN walk_comment_dict
                          /\ startswith(walk_comment_dict[pc + 4],
                                 walk_log[1].item.ins.dst \o <<" ", "=", " ">>
                                     \o hex(xN + walk_log[1].item.ins.imm) \o <<" ">>)

\* 'adrp x8, 100' at 0x1000 and 'add x1, x8, #0x20': x8 = 0x65000, x1 = 0x65020
C12_Witness ==
    /\ adrp_instruction = [addr |-> 4096, ins |-> Ins(m_adrp, r_x8, <<>>, 100, TRUE, <<>>)]
    /\ AddFollowsSeed
    /\ walk_log[1].item.ins = Ins(m_add, r_x1, r_x8, 32, TRUE, <<>>)
    /\ walk_pc = "done"
    /\ walk_comment_dict[4096] = <<"x", "8", " ", "=", " ", "0", "x", "6", "5", "0", "0", "0">>
    /\ walk_comment_dict[4100] = <<"x", "1", " ", "=", " ", "0", "x", "6", "5", "0", "2", "0", " ">>

\* the symbol text the spec asks for: that of the loaded value, or else that
\* of the address it was loaded from
PreferredLookup(r) ==
    IF Len(get_image_lookup_summary_from_address(r.load_result)) > 0
    THEN get_image_lookup_summary_from_address(r.load_result)
    ELSE get_image_lookup_summary_from_address(r.load_address)

\* every annotated load with one of the mnemonics carries the preferred text
LookupFallbackFor(mnemonics) ==
    \A k \in 1..Len(walk_log) :
        LET e == walk_log[k]
            r == analyze_ldr(e.item.ins, e.dic)
        IN  (e.item.ins.mnemonic \in mnemonics /\ r.can_analyze /\ NoNativeComment(e.item)) =>
                /\ e.item.addr \in DOMAIN walk_comment_dict
                /\ walk_comment_dict[e.item.addr] =
                       r.reg \o <<" ", "=", " ">> \o hex(r.load_result) \o <<" ">>
                           \o PreferredLookup(r)

\* C13: the comment of an ldr and of an ldrsw ends with the symbol text of
\* the loaded value or, if that is empty, with the symbol text of the address
\* loaded from.
C13_LookupFallback == LookupFallbackFor({m_ldr, m_ldrsw})

\* the addresses A+4 .. A+32 after the adr/adrp at A
WindowOf(A) == {A + 4 * k : k \in 1..8}

\* C14: a walk from the adr/adrp at A looks at no more than the 8
\* instructions at A+4 .. A+32, one per round whatever the instruction is (str
\* and nop too), and stores comments for A and for addresses in that range
\* only.
C14_WindowOfEight ==
    LET A == adrp_instruction.addr
    IN  /\ Len(walk_log) <= 8
        /\ walk_i <= 8
        /\ \A k \in 1..Len(walk_log) :
               \/ walk_log[k].item.addr = A + 4 * k
               \/ /\ walk_log[k].item.ins = InvalidInstruction      \* past the mapped memory
                  /\ walk_log[k].stop
        /\ DOMAIN walk_comment_dict \subseteq {A} \cup WindowOf(A)

\* the walk has used up its 8 rounds on str and nop, and the add at A+36,
\* whose source register is known, has no comment
C14_Witness ==
    LET A    == adrp_instruction.addr
        next == ((A + 36 - ListingBase) \div 4) + 1
    IN  /\ walk_pc = "done"
        /\ Len(walk_log) = 8
        /\ ~walk_log[8].stop
        /\ \E k \in 1..8 : walk_log[k].item.ins.mnemonic = m_str
        /\ \E k \in 1..8 : walk_log[k].item.ins.mnemonic = m_nop
        /\ next <= Len(memory_text)
        /\ memory_text[next].mnemonic = m_add
        /\ memory_text[next].src \in DOMAIN walk_register_dic
        /\ (A + 36) \notin DOMAIN walk_comment_dict

-----------------------------------------------------------------------------
(* HMInstructionsHelper.adrp, the command                                  *)

txt_HMLLDB == <<"[", "H", "M", "L", "L", "D", "B", "]", " ">>
txt_error_not_integers ==
    <<"E", "r", "r", "o", "r", " ", "i", "n", "p", "u", "t", ",", " ", "S", "o", "m", "e", " ", "i", "n", "p", "u", "t", " ", "a", "r", "g", "u", "m", "e", "n", "t", "s", " ", "d", "o", " ", "n", "o", "t", " ", "s", "u", "p", "p", "o", "r", "t", " ", "c", "o", "n", "v", "e", "r", "s", "i", "o", "n", " ", "t", "o", " ", "i", "n", "t", "e", "g", "e", "r", "s", ".", " ", "P", "l", "e", "a", "s", "e", " ", "e", "n", "t", "e", "r", " ", "\"", "h", "e", "l", "p", " ", "a", "d", "r", "p", "\"", " ", "f", "o", "r", " ", "h", "e", "l", "p", ".">>
txt_error_parameter_count ==
    <<"E", "r", "r", "o", "r", " ", "i", "n", "p", "u", "t", ",", " ", "i", "n", "c", "o", "r", "r", "e", "c", "t", " ", "n", "u", "m", "b", "e", "r", " ", "o", "f", " ", "p", "a", "r", "a", "m", "e", "t", "e", "r", "s", ".", " ", "P", "l", "e", "a", "s", "e", " ", "e", "n", "t", "e", "r", " ", "\"", "h", "e", "l", "p", " ", "a", "d", "r", "p", "\"", " ", "f", "o", "r", " ", "h", "e", "l", "p", ".">>
txt_result == <<"r", "e", "s", "u", "l", "t">>

\* HM.DPrint: the line printed
DPrint(obj) == txt_HMLLDB \o obj

\* HMInstructionsHelper.int_value_from_string (lines 86-90): the exception
\* of int() leaves the function
InstructionsHelper_int_value_from_string(s) ==
    IF startswith(s, <<"0", "x">>) THEN int(s, 16) ELSE int(s, 10)

\* lines 70-75: the line that reports the result
adrp_report(label, imm, pc) ==
    TheOne({DPrint(label \o <<":", " ">> \o result[2] \o <<",", " ">> \o str(result[1]))
              : result \in {calculate_adrp_result_with_immediate_and_pc_address(imm, pc)}})

\* the command taking the two-token shape only
adrp_two_tokens_only(command_text) ==
    TheOne({
        IF Len(command_args) = 2
        THEN LET immediate_value  == InstructionsHelper_int_value_from_string(command_args[1])
                 pc_address_value == InstructionsHelper_int_value_from_string(command_args[2])
             IN  IF immediate_value.raised \/ pc_address_value.raised
                 THEN DPrint(txt_error_not_integers)
                 ELSE adrp_report(txt_result, immediate_value.value, pc_address_value.value)
        ELSE DPrint(txt_error_parameter_count)
            : command_args \in {split(command_text)}})

\* lines 50-75: what the command prints
adrp(command_text) ==
    TheOne({
        IF Len(command_args) = 2
        THEN LET immediate_value  == InstructionsHelper_int_value_from_string(command_args[1])
                 pc_address_value == InstructionsHelper_int_value_from_string(command_args[2])
             IN  IF immediate_value.raised \/ pc_address_value.raised
                 THEN DPrint(txt_error_not_integers)
                 ELSE adrp_report(txt_result, immediate_value.value, pc_address_value.value)
        ELSE IF Len(command_args) = 5
        THEN LET immediate_value  == InstructionsHelper_int_value_from_string(command_args[5])
                 pc_address_value == InstructionsHelper_int_value_from_string(command_args[1])
             IN  IF immediate_value.raised \/ pc_address_value.raised
                 THEN DPrint(txt_error_not_integers)
                 ELSE adrp_report(rstrip(command_args[4], ","),
                                  immediate_value.value, pc_address_value.value)
        ELSE DPrint(txt_error_parameter_count)
            : command_args \in {split(command_text)}})

\* Tokens: immediates and pc addresses in decimal and hexadecimal, and
\* tokens that are no integers
tok_offset   == <<"<", "+", "4", ">", ":">>
tok_x8_comma == <<"x", "8", ",">>
tok_x16      == <<"x", "1", "6">>
tok_zz       == <<"z", "z">>
tok_0x       == <<"0", "x">>

NumberTokens ==
    {str(i) : i \in ImmSet \cup {100}} \cup {hex(i) : i \in 0..MaxImm}
        \cup {hex(p) : p \in PcSet}
ArgTokens == NumberTokens \cup {tok_zz, tok_0x}

\* "<pc> <+4>:  adrp   <register> <immediate>" as lldb prints the instruction
InstructionLine(pc_tok, reg_tok, imm_tok) ==
    pc_tok \o <<" ">> \o tok_offset \o <<" ", " ">> \o m_adrp \o <<" ", " ", " ">>
        \o reg_tok \o <<" ">> \o imm_tok

CommandSet ==
    {join(<<a, b>>) : a \in ArgTokens, b \in ArgTokens}
        \cup {InstructionLine(a, r, b) : a \in ArgTokens, b \in ArgTokens,
                                        r \in {tok_x8_comma, tok_x16}}
        \cup {join(ts) : ts \in UNION {[1..n -> {hex(ListingBase), <<"1">>}] : n \in {0, 1, 3, 4, 6}}}

InitCmd ==
    /\ command \in CommandSet
    /\ adrp_printed = <<>>
    /\ AdrpIdle /\ IntIdle /\ LineIdle /\ EnvIdle /\ BranchIdle /\ DisIdle /\ WalkIdle /\ RcIdle /\ PassIdle

AdrpCommand ==
    /\ adrp_printed = <<>>
    /\ adrp_printed' = <<adrp(command)>>
    /\ UNCHANGED <<command, adrpVars, intVars, lineVars, env, branchVars, disVars, walkVars, rcVars, passVars>>

SpecCmd == InitCmd /\ [][AdrpCommand]_vars

\* a token Python's int() converts, in the base its "0x" prefix selects
IsIntegerToken(tok) == TolerantHex(tok) \/ TolerantDec(tok)

\* what is reported for an immediate token and a pc token
ResultReport(imm_tok, pc_tok) ==
    LET v == PageOf(TolerantValue(imm_tok), TolerantValue(pc_tok))
    IN  hex(v) \o <<",", " ">> \o str(v)

\* C15: the command takes 2 tokens (immediate, pc address) or 5 tokens (pc
\* address first, register fourth, immediate fifth); the hexadecimal and
\* decimal result it prints is the same function of the immediate and pc
\* tokens in both shapes; with any other number of tokens, or with an
\* immediate or pc token that is no integer, it prints an error message and
\* no result.
C15_TwoShapesOneResult ==
    adrp_printed # <<>> =>
        LET args == split(command)
            n    == Len(args)
        IN  IF n \notin {2, 5}
            THEN adrp_printed = <<txt_HMLLDB \o txt_error_parameter_count>>
            ELSE LET imm_tok == IF n = 2 THEN args[1] ELSE args[5]
                     pc_tok  == IF n = 2 THEN args[2] ELSE args[1]
                     label   == IF n = 2 THEN txt_result ELSE rstrip(args[4], ",")
                 IN  IF IsIntegerToken(imm_tok) /\ IsIntegerToken(pc_tok)
                     THEN adrp_printed = <<txt_HMLLDB \o label \o <<":", " ">>
                                             \o ResultReport(imm_tok, pc_tok)>>
                     ELSE adrp_printed = <<txt_HMLLDB \o txt_error_not_integers>>

\* "0x1004 <+4>:  adrp   x8, 100" has printed "[HMLLDB] x8: 0x65000, 413696"
C15_Witness ==
    /\ command = <<"0", "x", "1", "0", "0", "4", " ", "<", "+", "4", ">", ":", " ", " ", "a", "d", "r", "p", " ", " ", " ", "x", "8", ",", " ", "1", "0", "0">>
    /\ adrp_printed = <<<<"[", "H", "M", "L", "L", "D", "B", "]", " ", "x", "8", ":", " ", "0", "x", "6", "5", "0", "0", "0", ",", " ", "4", "1", "3", "6", "9", "6">>>>

-----------------------------------------------------------------------------
(* HMRegister.register_change, the command rc                              *)

MaxCalls == 3
MaxStep  == 2

r_x0 == <<"x", "0">>
r_w0 == <<"w", "0">>
r_pc == <<"p", "c">>

\* the children of "General Purpose Registers", in lldb's order
RegisterNames == <<r_x0, r_x1, r_pc, r_w0>>

txt_first_time == <<"G", "e", "t", " ", "r", "e", "g", "i", "s", "t", "e", "r", "s", " ", "f", "o", "r", " ", "t", "h", "e", " ", "f", "i", "r", "s", "t", " ", "t", "i", "m", "e", ".">>
txt_repeatedly == <<"E", "x", "e", "c", "u", "t", "e", "d", " ", "r", "e", "p", "e", "a", "t", "e", "d", "l", "y", "!">>

\* SBValue.GetValue of a register: "0x" and 16 hexadecimal digits
GetValue(v) ==
    <<"0", "x">> \o hex4(0) \o hex4(0) \o hex4(v \div LimbBase) \o hex4(v % LimbBase)

\* SBAddress.GetDescription where the address has a symbol, else ""
AddressDescription(v) ==
    IF v >= ListingBase /\ v < ListingBase + 4 * Len(ProgramText) THEN txt_lookup_sym ELSE <<>>

\* frame.Disassemble(), split into lines: the function's name and its
\* instructions, the one at pc marked
Disassemble(fr) ==
    <<txt_label>> \o
        [k \in 1..Len(ProgramText) |->
            FormatLine(fr[r_pc] = ListingBase + 4 * (k - 1), ListingBase + 4 * (k - 1), FALSE)]

\* str.lstrip(chars)
RECURSIVE lstrip_chars(_, _)
lstrip_chars(s, chars) ==
    IF s # <<>> /\ s[1] \in chars THEN lstrip_chars(Tail(s), chars) ELSE s

\* lines 106-112 (arm64: the key is "pc")
\* last_pc_value stays at its initial 0
is_executed_repeatedly_from_zero(fr, last_dict) == fr[r_pc] = 0

is_executed_repeatedly(fr, last_dict) ==
    LET last_pc_value == IF r_pc \in DOMAIN last_dict THEN int(last_dict[r_pc], 16).value ELSE 0
    IN  fr[r_pc] = last_pc_value

\* lines 129-133: the first element that starts with "0x", or ""
RECURSIVE first_address_element(_)
first_address_element(elements) ==
    IF elements = <<>> THEN <<>>
    ELSE IF startswith(elements[1], <<"0", "x">>) THEN elements[1]
    ELSE first_address_element(Tail(elements))

\* lines 126-139: the loop over the lines, from line k on
RECURSIVE last_instruction_from(_, _, _)
last_instruction_from(instruction_list, k, last_pc_value) ==
    IF k > Len(instruction_list) THEN <<>>
    ELSE TheOne({
            LET address == first_address_element(split_at(instruction_line_strip, " "))
            IN  IF ~startswith(address, <<"0", "x">>)
                THEN last_instruction_from(instruction_list, k + 1, last_pc_value)
                ELSE IF int(rstrip(address, ":"), 16).value = last_pc_value
                THEN <<instruction_line_strip>>
                ELSE last_instruction_from(instruction_list, k + 1, last_pc_value)
            : instruction_line_strip \in {strip(lstrip_chars(instruction_list[k], {"-", ">"}))}})

\* lines 115-139: the lines printed
print_last_instruction_if_needed(fr, last_dict, last_dis) ==
    IF r_pc \notin DOMAIN last_dict THEN <<>>
    ELSE TheOne({
            IF fr[r_pc] - last_pc_value # 4 THEN <<>>
            ELSE last_instruction_from(last_dis, 1, last_pc_value)
            : last_pc_value \in {int(last_dict[r_pc], 16).value}})

\* line 97: "\t\t<name>:<old> -> <new>  <description>"
RegisterLine(reg_name, last_register_value, reg_value_str, address_desc) ==
    <<"\t", "\t">> \o reg_name \o <<":">> \o last_register_value \o <<" ", "-", ">", " ">>
        \o reg_value_str \o <<" ", " ">> \o address_desc

\* lines 74-99: the lines the loop prints, from child i on
RECURSIVE register_lines_from(_, _, _)
register_lines_from(fr, last_dict, i) ==
    IF i > Len(RegisterNames) THEN <<>>
    ELSE LET reg_name      == RegisterNames[i]
             reg_value_str == GetValue(fr[reg_name])
         IN  (IF startswith(reg_name, <<"w">>) THEN <<>>
              ELSE IF reg_name \notin DOMAIN last_dict THEN <<>>
              ELSE IF reg_value_str # last_dict[reg_name]
              THEN <<RegisterLine(reg_name, last_dict[reg_name], reg_value_str,
                                  AddressDescription(fr[reg_name]))>>
              ELSE <<>>)
                 \o register_lines_from(fr, last_dict, i + 1)

\* lines 74-99: g_last_registers_dict after the loop
saved_registers(fr, last_dict) ==
    LET names == {RegisterNames[i] : i \in 1..Len(RegisterNames)}
        kept  == {n \in names : ~startswith(n, <<"w">>)}
    IN  [n \in (DOMAIN last_dict) \cup kept |->
            IF n \in kept THEN GetValue(fr[n]) ELSE last_dict[n]]

\* the loop printing a line for every saved register
register_lines_for_all(fr, last_dict) ==
    [i \in 1..Len(RegisterNames) |->
        RegisterLine(RegisterNames[i], <<>>, GetValue(fr[RegisterNames[i]]), <<>>)]

\* lines 74-99: the lines the loop prints
register_lines(fr, last_dict) == register_lines_from(fr, last_dict, 1)

FrameSet ==
    {[n \in {r_x0, r_x1, r_pc, r_w0} |->
        IF n = r_pc THEN pc ELSE IF n = r_x1 THEN x1 ELSE x0]
        : x0 \in {0, 1}, x1 \in {0, ListingBase},
          pc \in {0} \cup {ListingBase + 4 * k : k \in 0..MaxStep}}

InitRc ==
    /\ frame \in FrameSet
    /\ g_last_registers_dict = <<>>
    /\ last_disassemble = <<>>
    /\ rc_calls = 0
    /\ rc_printed = <<>>
    /\ AdrpIdle /\ IntIdle /\ LineIdle /\ EnvIdle /\ BranchIdle /\ DisIdle /\ WalkIdle /\ CmdIdle /\ PassIdle

\* lines 57-103
RegisterChange ==
    /\ rc_calls < MaxCalls
    /\ rc_calls' = rc_calls + 1
    /\ LET first == IF DOMAIN g_last_registers_dict = {}
                    THEN <<DPrint(txt_first_time)>> ELSE <<>>
       IN  IF is_executed_repeatedly(frame, g_last_registers_dict)
           THEN /\ rc_printed' = first \o <<DPrint(txt_repeatedly)>>
                /\ UNCHANGED <<g_last_registers_dict, last_disassemble>>
           ELSE /\ rc_printed' =
                      first \o print_last_instruction_if_needed(frame, g_last_registers_dict,
                                                                last_disassemble)
                            \o register_lines(frame, g_last_registers_dict)
                /\ g_last_registers_dict' = saved_registers(frame, g_last_registers_dict)
                /\ last_disassemble' = Disassemble(frame)
    /\ UNCHANGED <<frame, adrpVars, intVars, lineVars, env, branchVars, disVars, walkVars, cmdVars, passVars>>

\* the process runs on between two commands: the registers change
ProcessRuns ==
    /\ frame' \in FrameSet \ {frame}
    /\ UNCHANGED <<g_last_registers_dict, last_disassemble, rc_calls, rc_printed>>
    /\ UNCHANGED <<adrpVars, intVars, lineVars, env, branchVars, disVars, walkVars, cmdVars, passVars>>

NextRc == RegisterChange \/ ProcessRuns

SpecRc == InitRc /\ [][NextRc]_vars

\* what an rc that has just run printed about the register n
HasRegisterLine(printed, n) ==
    \E k \in 1..Len(printed) : startswith(printed[k], <<"\t", "\t">> \o n \o <<":">>)

ReportedRepeated(printed) ==
    \E k \in 1..Len(printed) : printed[k] = txt_HMLLDB \o txt_repeatedly

\* C16: in every run of rc a line "<register>:<old> -> <new>" is printed
\* for a register exactly if the run is not reported as repeated, the
\* register's name does not start with "w", an earlier run saved the register
\* and its value now differs from the saved one; the line shows the saved and
\* the current value; the first run prints no such line; and after a run not
\* reported as repeated the saved value of every register not starting with
\* "w" is its current value.
C16_RegisterLines ==
    [][rc_calls' # rc_calls =>
          LET repeated == ReportedRepeated(rc_printed')
              saved    == g_last_registers_dict
          IN  /\ \A n \in DOMAIN frame :
                     /\ HasRegisterLine(rc_printed', n) <=>
                            /\ ~repeated
                            /\ n[1] # "w"
                            /\ n \in DOMAIN saved
                            /\ int(saved[n], 16).value # frame[n]
                     /\ HasRegisterLine(rc_printed', n) =>
                            \E k \in 1..Len(rc_printed') :
                                startswith(rc_printed'[k],
                                    <<"\t", "\t">> \o n \o <<":">> \o saved[n]
                                        \o <<" ", "-", ">", " ", "0", "x">>
                                        \o hex4(0) \o hex4(0) \o hex4(frame[n] \div 65536)
                                        \o hex4(frame[n] % 65536))
              /\ rc_calls = 0 => \A n \in DOMAIN frame : ~HasRegisterLine(rc_printed', n)
              /\ ~repeated =>
                     \A n \in DOMAIN frame :
                         n[1] # "w" =>
                             /\ n \in DOMAIN g_last_registers_dict'
                             /\ int(g_last_registers_dict'[n], 16).value = frame[n]
    ]_vars

\* a later run of rc has printed the change of x1 and pc and nothing about
\* x0, which kept its value, nor about w0
C16_Witness ==
    /\ rc_calls >= 2
    /\ ~ReportedRepeated(rc_printed)
    /\ \E k \in 1..Len(rc_printed) :
           rc_printed[k] = <<"\t", "\t", "x", "1", ":", "0", "x">> \o hex4(0) \o hex4(0) \o hex4(0)
                               \o hex4(0) \o <<" ", "-", ">", " ", "0", "x">> \o hex4(0) \o hex4(0)
                               \o hex4(0) \o hex4(4096) \o <<" ", " ">> \o txt_lookup_sym
    /\ HasRegisterLine(rc_printed, r_pc)
    /\ ~HasRegisterLine(rc_printed, r_x0)
    /\ ~HasRegisterLine(rc_printed, r_w0)

-----------------------------------------------------------------------------
(* The forward walk against the branch-target walk                         *)

OpcodeTable == {m_adr, m_adrp, m_add, m_ldr, m_ldrsw, m_mov, m_str, m_nop}

\* the rounds of the forward walk on an instruction with one of the
\* mnemonics: where comment_for_branch would go on to the next instruction
\* from the same register state, the forward walk goes on too
ForwardContinuesWhereBranchDoes(mnemonics) ==
    \A k \in 1..Len(walk_log) :
        LET e == walk_log[k]
        IN  (e.item.ins.mnemonic \in mnemonics /\ ~BranchStep(e.item, e.dic).done) => ~e.stop

\* C17: for every mnemonic of the opcode table and every register state, an
\* instruction on which the branch-target walk continues lets the forward
\* walk continue as well (an adr/adrp inside the forward window included).
C17_SameOpcodeTable == ForwardContinuesWhereBranchDoes(OpcodeTable)

-----------------------------------------------------------------------------
(* Memory that cannot be read                                              *)

\* the round looked at a load with one of the mnemonics whose address is
\* known and whose memory read fails
ReadFailed(e, mnemonics) ==
    /\ e.item.ins.mnemonic \in mnemonics
    /\ e.item.ins.parses
    /\ e.item.ins.src \in DOMAIN e.dic
    /\ (e.dic[e.item.ins.src] + e.item.ins.imm) \in env.unreadable

\* a forward walk ends with the round in which the read fails
HaltsOnReadFailure(mnemonics) ==
    \A k \in 1..Len(walk_log) :
        ReadFailed(walk_log[k], mnemonics) => (walk_log[k].stop /\ k = Len(walk_log))

\* C18: a walk halts at the ldr or ldrsw whose memory read fails; no later
\* instruction is analysed or annotated by it.
C18_ReadFailureHalts == HaltsOnReadFailure({m_ldr, m_ldrsw})

-----------------------------------------------------------------------------
(* Properties of comment_for_branch on the bl to the function              *)

\* the tracker on one instruction of the opcode table: whether it analysed
\* the instruction, and the register state it leaves
Analysed(item, dic) ==
    LET ins == item.ins
    IN  IF ins.mnemonic \in {m_adr, m_adrp}
        THEN [ok |-> analyze_adrp(ins, item.addr, dic).ok, dic |-> analyze_adrp(ins, item.addr, dic).dic]
        ELSE IF ins.mnemonic = m_add
        THEN [ok |-> analyze_add(ins, dic).ok, dic |-> analyze_add(ins, dic).dic]
        ELSE IF ins.mnemonic \in {m_ldr, m_ldrsw}
        THEN [ok |-> analyze_ldr(ins, dic).can_analyze, dic |-> analyze_ldr(ins, dic).dic]
        ELSE IF ins.mnemonic = m_mov
        THEN [ok |-> analyze_mov(ins, dic).ok, dic |-> analyze_mov(ins, dic).dic]
        ELSE IF ins.mnemonic \in {m_str, m_nop}
        THEN [ok |-> TRUE, dic |-> dic]
        ELSE [ok |-> FALSE, dic |-> dic]

\* the instruction at position k of the branch target, k = 1 the first
TargetItem(k) ==
    [addr |-> ListingBase + 4 * (k - 1), ins |-> InstructionAt(ListingBase + 4 * (k - 1))]

\* the first n instructions of the target, analysed in order from an empty
\* register state
RECURSIVE Tracked(_)
Tracked(n) ==
    IF n = 0 THEN [ok |-> TRUE, dic |-> <<>>]
    ELSE TheOne({IF ~p.ok THEN p ELSE Analysed(TargetItem(n), p.dic) : p \in {Tracked(n - 1)}})

\* position k holds a br/blr on a known register, reached through
\* instructions that were all analysed
ReachesKnownBranch(k) ==
    /\ k <= Len(memory_text)
    /\ memory_text[k].mnemonic \in {m_br, m_blr}
    /\ Tracked(k - 1).ok
    /\ memory_text[k].dst \in DOMAIN Tracked(k - 1).dic

\* C19: comment_for_branch returns a comment only if among the 10
\* instructions at the target there is a br/blr whose register is known and
\* before which every instruction is of the opcode table and was analysed;
\* an unsupported mnemonic, a failed analysis, a br/blr on a register that
\* is not known, or no br/blr among the 10 give the empty string.
C19_CommentOnlyAtKnownBranch ==
    (walk_branch_comment # <<>> /\ walk_branch_comment[1] # <<>>) =>
        /\ Len(memory_text) >= 10
        /\ \E k \in 1..10 :
               /\ ReachesKnownBranch(k)
               /\ \A j \in 1..(k - 1) : memory_text[j].mnemonic \in OpcodeTable

\* a comment was returned for a target that ends in blr x9, x9 loaded on the
\* way
C19_Witness ==
    /\ walk_branch_comment # <<>>
    /\ startswith(walk_branch_comment[1], <<"b", "l", "r", " ", "x", "9", ",", " ", "x", "9", " ", "=", " ", "0", "x">>)
    /\ memory_text[10] = Ins(m_blr, r_x9, <<>>, 0, TRUE, <<>>)
    /\ \E j \in 1..9 : memory_text[j].mnemonic = m_ldr /\ memory_text[j].dst = r_x9

-----------------------------------------------------------------------------
(* The walks of enhanced_disassemble and the runs of the listing           *)

\* the addresses on the lines of a run handed to the annotator
RunAddresses(r) == {get_address_from_assemble_line(assemble_lines[j]) : j \in RunLines(r)}

\* C20: a walk stores comments only for instructions of the run its adr/adrp
\* is in: every address that has a comment is on a line of a run that has
\* been handed to the annotator, never past a label line or past the end of
\* the listing.
C20_WalkStaysInItsRun ==
    \A a \in DOMAIN address_comment_dict :
        \E k \in 1..Len(read_log) : a \in RunAddresses(read_log[k])

-----------------------------------------------------------------------------
(* str and nop                                                             *)

\* the instruction the next round of the forward walk looks at
NextWalkItem ==
    GetInstructionAtIndex(
        ReadInstructions(adrp_instruction.addr + 4, instruction_count_adrp), walk_i)

\* C21: a round of the forward walk on a str or a nop changes neither the
\* register state nor the address-to-comment map and the walk goes on with
\* the next instruction; from the same register state a round of
\* comment_for_branch on that instruction goes on as well, with the register
\* state as it was.
C21_StrAndNopChangeNothing ==
    [][(walk_pc = "walk" /\ walk_i < instruction_count_adrp /\ NextWalkItem.ins.mnemonic \in {m_str, m_nop}) =>
          /\ walk_pc' = "walk"
          /\ walk_i' = walk_i + 1
          /\ walk_register_dic' = walk_register_dic
          /\ walk_comment_dict' = walk_comment_dict
          /\ ~BranchStep(NextWalkItem, walk_register_dic).done
          /\ BranchStep(NextWalkItem, walk_register_dic).dic = walk_register_dic
    ]_vars

\* both walks went through str and nop: the forward walk used its 8 rounds,
\* the last of them on str or nop, with the register state the ldr left, and
\* comment_for_branch reached the blr behind them
C21_Witness ==
    /\ walk_pc = "done"
    /\ Len(walk_log) = 8
    /\ ~walk_log[8].stop
    /\ walk_log[1].item.ins.mnemonic = m_ldr
    /\ \A k \in 2..8 : walk_log[k].item.ins.mnemonic \in {m_str, m_nop}
    /\ walk_register_dic = walk_log[2].dic
    /\ walk_branch_comment # <<>>
    /\ walk_branch_comment[1] # <<>>

-----------------------------------------------------------------------------
(* The groups of address-bearing lines and the reads made for them         *)

\* the lines of the listing that have an address
AddressLines == {j \in 1..Len(assemble_lines) : HasAddress(assemble_lines[j])}

\* the maximal stretches s..e of consecutive lines out of A
MaximalGroupsOf(A) ==
    {g \in A \X A :
        /\ g[1] <= g[2]
        /\ \A j \in g[1]..g[2] : j \in A
        /\ (g[1] - 1) \notin A
        /\ (g[2] + 1) \notin A}

MaximalGroups == MaximalGroupsOf(AddressLines)

\* the reads made for the group g: its first address, its number of lines
ReadsFor(g) ==
    {k \in 1..Len(read_log) :
        /\ read_log[k].at = g[2] + 1
        /\ read_log[k].count = g[2] - g[1] + 1
        /\ read_log[k].first = get_address_from_assemble_line(assemble_lines[g[1]])}

\* the scan has met the end of the group g: the line after it, or the end
\* of the listing
GroupClosed(g) == dis_pc # "scan" \/ line_index > g[2] + 1

\* C22: no line is emitted before the scan is over; once the scan is over
\* every maximal group of address-bearing lines, the last one of a listing
\* that ends in such a line included, has been read and handed to
\* set_my_comment_in_dict exactly once, with the address of its first line
\* and its number of lines, and there is no other read; during the scan the
\* same holds of the groups met so far.  A listing without an
\* address-bearing line has no group and so no read.
C22_EveryGroupReadOnceBeforeOutput ==
    /\ result_messages # <<>> => dis_pc # "scan"
    /\ \E groups \in {MaximalGroups} :
          /\ \A g \in groups :
                Cardinality(ReadsFor(g)) = IF GroupClosed(g) THEN 1 ELSE 0
          /\ Len(read_log) = Cardinality({g \in groups : GroupClosed(g)})

\* a listing of two groups, the second of them at its end, has been printed
C22_Witness ==
    /\ dis_pc = "done"
    /\ result_messages # <<>>
    /\ Cardinality(MaximalGroups) = 2
    /\ HasAddress(assemble_lines[Len(assemble_lines)])
    /\ Len(read_log) = 2
    /\ read_log[2].at = Len(assemble_lines) + 1

-----------------------------------------------------------------------------
(* HMDisassemble.set_my_comment_in_dict on the instructions of a run, one   *)
(* round of its loop at a time                                             *)

MaxPass == 5

PassInstructions ==
    {Ins(m_adrp, r_x8, <<>>, 6, TRUE, <<>>),
     Ins(m_add,  r_x1, r_x8, 32, TRUE, <<>>),
     Ins(m_ldr,  r_x9, r_x8, 0, TRUE, <<>>),
     Ins(m_nop,  <<>>, <<>>, 0, TRUE, <<>>),
     Ins(m_bl,   <<>>, <<>>, TargetBase, TRUE, <<>>)}

PassTexts == UNION {[1..n -> PassInstructions] : n \in 0..MaxPass}

PassEnvSet ==
    {[unreadable |-> {}, objc |-> TRUE, xs_ok |-> TRUE,
      mapped |-> instruction_count_branch, commented |-> {}],
     [unreadable |-> {}, objc |-> FALSE, xs_ok |-> FALSE,
      mapped |-> instruction_count_branch, commented |-> {ListingBase + 4}]}

\* lines 157-164: one round of the loop
set_my_comment_round(item, comment_dict) ==
    IF item.ins.mnemonic \in {m_b, m_bl} THEN record_branch_logic(item, comment_dict)
    ELSE IF item.ins.mnemonic \in {m_adr, m_adrp} THEN record_adrp_logic(item, comment_dict)
    ELSE comment_dict

\* The run is the whole function: enhanced_disassemble reads it with the
\* address of its first line and the number of its lines (lines 77-80).
InitPass ==
    /\ memory_text \in PassTexts
    /\ env \in PassEnvSet
    /\ pass_instruction_list = ReadInstructions(ListingBase, Len(memory_text))
    /\ pass_i = 0
    /\ pass_comment_dict = <<>>
    /\ pass_writes = <<>>
    /\ adrp_instruction = [addr |-> LLDB_INVALID_ADDRESS, ins |-> InvalidInstruction]
    /\ walk_pc = "idle"
    /\ walk_i = 0
    /\ walk_register_dic = <<>>
    /\ walk_comment_dict = <<>>
    /\ walk_log = <<>>
    /\ walk_branch_comment = <<>>
    /\ loaded_raw = <<0, 0, 0, 0>>
    /\ ldrsw_result = <<>>
    /\ AdrpIdle /\ IntIdle /\ LineIdle /\ BranchIdle /\ DisIdle /\ CmdIdle /\ RcIdle

\* One round.  Neither record_branch_logic nor record_adrp_logic reads the
\* map, so the keys a call stores are the keys it stores into an empty map.
PassInstruction ==
    /\ pass_i < Len(pass_instruction_list)
    /\ LET item == GetInstructionAtIndex(pass_instruction_list, pass_i)
       IN  /\ pass_comment_dict' = set_my_comment_round(item, pass_comment_dict)
           /\ pass_writes' = Append(pass_writes,
                  [item |-> item, stored |-> set_my_comment_round(item, <<>>)])
    /\ pass_i' = pass_i + 1
    /\ UNCHANGED <<pass_instruction_list>>
    /\ UNCHANGED <<adrpVars, intVars, lineVars, env, branchVars, disVars, walkVars, cmdVars, rcVars>>

SpecPass == InitPass /\ [][PassInstruction]_vars

\* the rounds make up set_my_comment_in_dict
PassAgreesWithFunction ==
    pass_i = Len(pass_instruction_list) =>
        pass_comment_dict = set_my_comment_in_dict(<<>>, pass_instruction_list)

\* no adr, adrp, b or bl from address a + 4 up to address b
NoSeedOrBranchIn(a, b) ==
    \A c \in (a + 4)..b :
        (c - a) % 4 = 0 => InstructionAt(c).mnemonic \notin {m_adr, m_adrp, m_b, m_bl}

\* C23: during a pass over a run no key of the map is stored by the calls
\* made for two different instructions; a call for a b or bl stores at most
\* the key of its own address; a call for an adr or adrp stores at most its
\* own address and addresses behind it up to the next adr, adrp, b or bl; a
\* call for any other instruction stores nothing; and every comment in the
\* map is still the one its call stored.
C23_EachKeyWrittenOnce ==
    /\ \A j, k \in 1..Len(pass_writes) :
          j # k => DOMAIN pass_writes[j].stored \cap DOMAIN pass_writes[k].stored = {}
    /\ \A k \in 1..Len(pass_writes) :
          LET w == pass_writes[k]
          IN  /\ w.item.ins.mnemonic \in {m_b, m_bl} => DOMAIN w.stored \subseteq {w.item.addr}
              /\ w.item.ins.mnemonic \in {m_adr, m_adrp} =>
                    \A a \in DOMAIN w.stored :
                        a >= w.item.addr /\ NoSeedOrBranchIn(w.item.addr, a)
              /\ w.item.ins.mnemonic \notin {m_adr, m_adrp, m_b, m_bl} => w.stored = <<>>
              /\ \A a \in DOMAIN w.stored :
                    a \in DOMAIN pass_comment_dict /\ pass_comment_dict[a] = w.stored[a]
    /\ DOMAIN pass_comment_dict = UNION {DOMAIN pass_writes[k].stored : k \in 1..Len(pass_writes)}

\* a pass over two adrp, each with annotated instructions behind it, and a
\* bl that was annotated between them
C23_Witness ==
    /\ pass_i = Len(pass_instruction_list)
    /\ \E j, k, b \in 1..Len(pass_writes) :
          /\ j < b /\ b < k
          /\ pass_writes[j].item.ins.mnemonic = m_adrp
          /\ pass_writes[k].item.ins.mnemonic = m_adrp
          /\ pass_writes[b].item.ins.mnemonic = m_bl
          /\ Cardinality(DOMAIN pass_writes[j].stored) = 2
          /\ Cardinality(DOMAIN pass_writes[k].stored) = 2
          /\ DOMAIN pass_writes[b].stored = {pass_writes[b].item.addr}

-----------------------------------------------------------------------------
(* Native comments and the forward walk                                    *)

\* the instruction as it would be without a comment of lldb's own
WithoutComment(item) == [addr |-> item.addr, ins |-> [item.ins EXCEPT !.comment = <<>>]]

\* the register state round k of the walk left
DicAfter(k) == IF k < Len(walk_log) THEN walk_log[k + 1].dic ELSE walk_register_dic

\* the adr/adrp of the walk can be analysed
SeedAnalysed == analyze_adrp(adrp_instruction.ins, adrp_instruction.addr, <<>>).ok

\* C24: no comment is stored under the address of an instruction that has a
\* native comment, and a b or bl with a native comment leaves the map as it
\* is; an adr/adrp that can be analysed starts the walk with the register
\* state the tracker gives, native comment or not; every round of the walk
\* stops or goes on, and leaves the register state, as it would for the same
\* instruction without a native comment; and an instruction without one is
\* annotated from the register state the rounds before it left, those on
\* commented instructions included.
C24_NativeCommentKeepsTracking ==
    /\ \A a \in DOMAIN walk_comment_dict : Len(InstructionAt(a).comment) = 0
    /\ record_branch_logic(
           [addr |-> ListingBase, ins |-> [BranchToListing EXCEPT !.comment = txt_native]],
           walk_comment_dict) = walk_comment_dict
    /\ (walk_pc # "start" /\ SeedAnalysed) =>
          /\ walk_pc = "done" => Len(walk_log) >= 1
          /\ Len(walk_log) >= 1 =>
                walk_log[1].dic =
                    analyze_adrp(adrp_instruction.ins, adrp_instruction.addr, <<>>).dic
    /\ \A k \in 1..Len(walk_log) :
          \E r \in {AdrpWalkStep(WithoutComment(walk_log[k].item), walk_log[k].dic, <<>>)} :
             /\ walk_log[k].stop = r.stop
             /\ DicAfter(k) = r.dic
             /\ (NoNativeComment(walk_log[k].item) /\ walk_log[k].item.addr \in DOMAIN r.dict) =>
                   /\ walk_log[k].item.addr \in DOMAIN walk_comment_dict
                   /\ walk_comment_dict[walk_log[k].item.addr] = r.dict[walk_log[k].item.addr]

\* an adrp with a native comment, behind it an 'ldr x8, [x8]' with a native
\* comment, and later an add that is annotated from the x8 that ldr loaded
C24_Witness ==
    /\ walk_pc = "done"
    /\ ~NoNativeComment(adrp_instruction)
    /\ adrp_instruction.addr \notin DOMAIN walk_comment_dict
    /\ Len(walk_log) >= 3
    /\ walk_log[2].item.ins.mnemonic = m_ldr
    /\ walk_log[2].item.ins.dst = r_x8
    /\ ~NoNativeComment(walk_log[2].item)
    /\ walk_log[2].item.addr \notin DOMAIN walk_comment_dict
    /\ walk_log[3].dic[r_x8] # walk_log[2].dic[r_x8]
    /\ \E k \in 3..Len(walk_log) :
          /\ walk_log[k].item.ins.mnemonic = m_add
          /\ walk_log[k].item.ins.src = r_x8
          /\ walk_log[k].item.addr \in DOMAIN walk_comment_dict
          /\ startswith(walk_comment_dict[walk_log[k].item.addr],
                 r_x1 \o <<" ", "=", " ">>
                     \o hex(walk_log[3].dic[r_x8] + walk_log[k].item.ins.imm))

-----------------------------------------------------------------------------
(* rc at the pc it saved                                                   *)

\* an earlier run saved the registers and the frame's pc is the saved pc
AtSavedPc ==
    /\ r_pc \in DOMAIN g_last_registers_dict
    /\ int(g_last_registers_dict[r_pc], 16).value = frame[r_pc]

\* what a run of rc prints when it is not at the saved pc and registers have
\* been saved before
printed_at_new_pc(fr, last_dict, last_dis) ==
    print_last_instruction_if_needed(fr, last_dict, last_dis) \o register_lines(fr, last_dict)

\* C25: a run of rc at the saved pc prints "[HMLLDB] Executed repeatedly!"
\* and nothing else, and leaves the saved registers and the saved
\* disassembly as they are; a run at another pc prints what the frame, the
\* saved registers and the saved disassembly determine, whatever number of
\* runs came before.
C25_RepeatedRunChangesNothing ==
    [][rc_calls' # rc_calls =>
          /\ AtSavedPc =>
                /\ rc_printed' = <<txt_HMLLDB \o txt_repeatedly>>
                /\ g_last_registers_dict' = g_last_registers_dict
                /\ last_disassemble' = last_disassemble
          /\ (g_last_registers_dict # <<>> /\ ~AtSavedPc) =>
                rc_printed' = printed_at_new_pc(frame, g_last_registers_dict, last_disassemble)
    ]_vars

\* rc has run at the saved pc after x1 changed: the report is all it
\* printed, and x1 is saved with the value it had before
C25_Witness ==
    /\ rc_calls >= 2
    /\ rc_printed = <<txt_HMLLDB \o txt_repeatedly>>
    /\ AtSavedPc
    /\ frame[r_pc] # 0
    /\ int(g_last_registers_dict[r_x1], 16).value # frame[r_x1]
    /\ last_disassemble # <<>>

=============================================================================
